---- MODULE Spec2Model ----
(***************************************************************************)
(* Model of the wiki cache of deepwiki-open (src/api/api.py): the cache    *)
(* file naming, the read/save helpers, the three cache endpoints and the   *)
(* processed-projects listing; and of the model provider clients           *)
(* (src/api/deepseek_client.py, zhipuai_client.py,                         *)
(* chinese_models_client.py): construction, chat_completion and the        *)
(* decoding of a streamed response.                                        *)
(*                                                                         *)
(* Strings are sequences of one-character strings, so that formatting a    *)
(* file name and parsing it back are computed as the code computes them.   *)
(***************************************************************************)
EXTENDS Integers, Sequences, FiniteSets, TLC

VARIABLES
    files,      \* the file system: path -> [content, mtime]
    now,        \* the file system clock (mtime given to a written file)
    last,       \* the request completed last, with its outcome
    prev,       \* the request completed before it
    authMode,   \* WIKI_AUTH_MODE, fixed for the life of the process
    keyA,       \* path specification: a cache key
    keyB,       \* path specification: a second cache key
    pathA,      \* path specification: get_wiki_cache_path of keyA
    pathB,      \* path specification: get_wiki_cache_path of keyB
    entryA,     \* path specification: the listing entry parsed from keyA's file
    pending,    \* race specification: store requests in flight
    finished,   \* race specification: store requests in order of completion
    scanPc,     \* listing: where get_processed_projects stands
    scanNames,  \* listing: the names os.listdir returned that are still to visit
    scanEntries,\* listing: project_entries, in the order appended
    listing,    \* listing: the response of get_processed_projects
    scanStatFailed, \* listing: the cache file names whose os.stat raised
    scanGone,   \* listing: the cache file names whose file was gone when visited
    env,        \* clients: os.environ, the API key variables
    adapter,    \* clients: the client object under construction or constructed
    call,       \* clients: the chat_completion call of the adapter
    conn,       \* clients: the httpx.AsyncClient of the call and its response
    stream,     \* clients: the generator _handle_stream_response returned
    shared,     \* clients: the calls in flight on one client, and the client
                \* as it was constructed
    embed,      \* embedder: the generator of the random module, the last call
                \* of MockEmbedderClient and the first vector of each text
    bridge      \* clients: DeepSeekClient.call, its thread and its event loops

cacheVars == <<files, now, last, prev, authMode>>
pathVars == <<keyA, keyB, pathA, pathB, entryA>>
raceVars == <<pending, finished>>
listVars == <<scanPc, scanNames, scanEntries, listing, scanStatFailed, scanGone>>
vars == <<files, now, last, prev, authMode,
          keyA, keyB, pathA, pathB, entryA, pending, finished,
          scanPc, scanNames, scanEntries, listing, scanStatFailed, scanGone,
          env, adapter, call, conn, stream, shared, embed, bridge>>
otherVars == <<shared, embed, bridge>>
clientVars == <<env, adapter, call, conn, stream>>

----------------------------------------------------------------------------
(* Strings *)

\* s starts with p (str.startswith)
StartsWith(s, p) ==
    /\ Len(s) >= Len(p)
    /\ SubSeq(s, 1, Len(p)) = p

\* s ends with p (str.endswith)
EndsWith(s, p) ==
    /\ Len(s) >= Len(p)
    /\ SubSeq(s, Len(s) - Len(p) + 1, Len(s)) = p

RECURSIVE RemoveAll(_, _)
\* s.replace(p, ""): every non-overlapping occurrence of p, left to right
RemoveAll(s, p) ==
    IF Len(s) < Len(p) THEN s
    ELSE IF SubSeq(s, 1, Len(p)) = p
         THEN RemoveAll(SubSeq(s, Len(p) + 1, Len(s)), p)
         ELSE <<Head(s)>> \o RemoveAll(Tail(s), p)

RECURSIVE SplitAcc(_, _, _)
SplitAcc(s, c, cur) ==
    IF s = <<>> THEN <<cur>>
    ELSE IF Head(s) = c
         THEN <<cur>> \o SplitAcc(Tail(s), c, <<>>)
         ELSE SplitAcc(Tail(s), c, Append(cur, Head(s)))

\* s.split(c): the parts of s between the occurrences of c, empty parts kept
Split(s, c) == SplitAcc(s, c, <<>>)

RECURSIVE JoinWith(_, _)
\* c.join(parts)
JoinWith(parts, c) ==
    IF parts = <<>> THEN <<>>
    ELSE IF Len(parts) = 1 THEN parts[1]
         ELSE parts[1] \o <<c>> \o JoinWith(Tail(parts), c)

\* c occurs in s
Contains(s, c) == \E i \in 1..Len(s) : s[i] = c

----------------------------------------------------------------------------
(* Cache keys and file names *)

CachePrefix == <<"d","e","e","p","w","i","k","i","_","c","a","c","h","e","_">>
JsonSuffix == <<".","j","s","o","n">>
WIKI_CACHE_DIR == <<"w","c">>

\* configs["lang_config"]: the supported languages and the default language
supported_languages == { <<"e","n">>, <<"z","h">> }
default_language == <<"e","n">>

\* os.path.join(directory, name) for a name that is not absolute
PathJoin(d, name) == d \o <<"/">> \o name

\* The file name with the language left out
Mut_CacheFileName_no_language(owner, repo, repo_type, language) ==
    CachePrefix \o repo_type \o <<"_">> \o owner \o <<"_">> \o repo \o JsonSuffix

\* f"deepwiki_cache_{repo_type}_{owner}_{repo}_{language}.json"
CacheFileName(owner, repo, repo_type, language) ==
    CachePrefix \o repo_type \o <<"_">> \o owner \o <<"_">> \o repo
                \o <<"_">> \o language \o JsonSuffix

get_wiki_cache_path(owner, repo, repo_type, language) ==
    PathJoin(WIKI_CACHE_DIR, CacheFileName(owner, repo, repo_type, language))

KeyPath(k) == get_wiki_cache_path(k.owner, k.repo, k.repo_type, k.language)

\* The parts of a listed file name: prefix and suffix removed with
\* str.replace, then split at '_'
FileNameParts(filename) ==
    Split(RemoveAll(RemoveAll(filename, CachePrefix), JsonSuffix), "_")

NoPath == <<>>

NoEntry == [id |-> <<>>, owner |-> <<>>, repo |-> <<>>, repo_type |-> <<>>,
            language |-> <<>>, submittedAt |-> -1, listed |-> FALSE]

\* The ProcessedProjectEntry built from one file name and its mtime, or
\* NoEntry when the name has fewer than four parts
ProjectEntry(filename, mtime) ==
    LET parts == FileNameParts(filename) IN
    IF Len(parts) >= 4
    THEN [id |-> filename,
          owner |-> parts[2],
          repo |-> JoinWith(SubSeq(parts, 3, Len(parts) - 1), "_"),
          repo_type |-> parts[1],
          language |-> parts[Len(parts)],
          submittedAt |-> mtime,
          listed |-> TRUE]
    ELSE NoEntry

----------------------------------------------------------------------------
(* Cache records and their JSON documents.  A document is a sequence of     *)
(* tokens: an opening brace, one token per top-level member, a closing      *)
(* brace.  A file cut short by a failed write is a proper prefix of one.    *)

NoRepo == [owner |-> <<>>, repo |-> <<>>, type |-> <<>>]

\* JSON values: null, an opaque well-formed value named by a string, a RepoInfo
JNull == [t |-> "null", s |-> "", o |-> NoRepo]
JVal(x) == [t |-> "val", s |-> x, o |-> NoRepo]
JRepo(r) == [t |-> "repo", s |-> "", o |-> r]

OpenBrace == [k |-> "{", v |-> JNull]
CloseBrace == [k |-> "}", v |-> JNull]
Member(name, value) == [k |-> name, v |-> value]

\* A WikiCacheData with every optional field None and no content
NoData == [wiki_structure |-> JNull, generated_pages |-> JNull, repo_url |-> JNull,
           repo |-> JNull, provider |-> JNull, model |-> JNull]

\* WikiCacheData(wiki_structure=..., generated_pages=..., repo=..., provider=...,
\* model=...) built by save_wiki_cache from a WikiCacheRequest: repo_url is None
RequestPayload(data) ==
    [wiki_structure |-> data.wiki_structure,
     generated_pages |-> data.generated_pages,
     repo_url |-> JNull,
     repo |-> JRepo(data.repo),
     provider |-> data.provider,
     model |-> data.model]

\* json.dump(payload.model_dump()): the members in the order of the model's fields
Serialize(payload) ==
    << OpenBrace,
       Member("wiki_structure", payload.wiki_structure),
       Member("generated_pages", payload.generated_pages),
       Member("repo_url", payload.repo_url),
       Member("repo", payload.repo),
       Member("provider", payload.provider),
       Member("model", payload.model),
       CloseBrace >>

\* json.load accepts exactly one complete object
IsJsonObject(c) ==
    /\ Len(c) >= 2
    /\ c[1] = OpenBrace
    /\ c[Len(c)] = CloseBrace
    /\ \A i \in 2..(Len(c) - 1) : c[i].k \notin {"{", "}"}

HasMember(c, name) == \E i \in 2..(Len(c) - 1) : c[i].k = name

\* The value json.load gives a member: of a repeated name the last one counts
MemberValue(c, name) ==
    LET idx == { i \in 2..(Len(c) - 1) : c[i].k = name }
        top == CHOOSE i \in idx : \A j \in idx : j <= i
    IN c[top].v

\* The value WikiCacheData(**data) gives a field with default None
OptionalField(c, name) == IF HasMember(c, name) THEN MemberValue(c, name) ELSE JNull

\* WikiCacheData(**data) validates: both required fields present and well formed,
\* each optional field None or of its type
SchemaValid(c) ==
    /\ HasMember(c, "wiki_structure") /\ MemberValue(c, "wiki_structure").t = "val"
    /\ HasMember(c, "generated_pages") /\ MemberValue(c, "generated_pages").t = "val"
    /\ OptionalField(c, "repo_url").t \in {"null", "val"}
    /\ OptionalField(c, "repo").t \in {"null", "repo"}
    /\ OptionalField(c, "provider").t \in {"null", "val"}
    /\ OptionalField(c, "model").t \in {"null", "val"}

\* json.load(f) then WikiCacheData(**data): the exception raised, if any, and
\* the record built
ParseDocument(c) ==
    IF ~IsJsonObject(c) THEN [exc |-> "json", data |-> NoData]
    ELSE IF ~SchemaValid(c) THEN [exc |-> "schema", data |-> NoData]
    ELSE [exc |-> "none",
          data |-> [wiki_structure |-> MemberValue(c, "wiki_structure"),
                    generated_pages |-> MemberValue(c, "generated_pages"),
                    repo_url |-> OptionalField(c, "repo_url"),
                    repo |-> OptionalField(c, "repo"),
                    provider |-> OptionalField(c, "provider"),
                    model |-> OptionalField(c, "model")]]

----------------------------------------------------------------------------
(* The file system *)

EmptyDir == << >>

Exists(fs, path) == path \in DOMAIN fs

\* open(path, 'w') ... write ... : the file holds exactly content afterwards
WriteFile(fs, path, content, time) ==
    [q \in DOMAIN fs \cup {path} |->
        IF q = path THEN [content |-> content, mtime |-> time] ELSE fs[q]]

\* os.remove(path)
RemoveFile(fs, path) == [q \in DOMAIN fs \ {path} |-> fs[q]]

\* The paths whose file differs between two file systems
Touched(before, after) ==
    { q \in DOMAIN before \cup DOMAIN after :
        \/ q \notin DOMAIN before
        \/ q \notin DOMAIN after
        \/ before[q] /= after[q] }

----------------------------------------------------------------------------
(* The cache helpers.  Neither contains an await: each runs to its end      *)
(* without another request running in between.                              *)

NoFault == [kind |-> "none", n |-> 0]

\* open(cache_path, 'r'), json.load(f), WikiCacheData(**data): the exception
\* raised inside the try block, if any, and the record built
ReadAttempt(fs, path, fault) ==
    IF fault.kind = "open" THEN [exc |-> "io", data |-> NoData]
    ELSE ParseDocument(fs[path].content)

\* read_wiki_cache catching I/O errors only
Mut_read_wiki_cache_catch_io_only(fs, owner, repo, repo_type, language, fault) ==
    LET cache_path == get_wiki_cache_path(owner, repo, repo_type, language) IN
    IF Exists(fs, cache_path)
    THEN LET r == ReadAttempt(fs, cache_path, fault) IN
         IF r.exc = "none"
         THEN [raised |-> FALSE, present |-> TRUE, data |-> r.data]
         ELSE [raised |-> r.exc /= "io", present |-> FALSE, data |-> NoData]
    ELSE [raised |-> FALSE, present |-> FALSE, data |-> NoData]

\* read_wiki_cache: the record, or None when the file is missing or anything
\* raised while reading it (except Exception: return None)
read_wiki_cache(fs, owner, repo, repo_type, language, fault) ==
    LET cache_path == get_wiki_cache_path(owner, repo, repo_type, language) IN
    IF Exists(fs, cache_path)
    THEN LET r == ReadAttempt(fs, cache_path, fault) IN
         IF r.exc = "none"
         THEN [raised |-> FALSE, present |-> TRUE, data |-> r.data]
         ELSE [raised |-> FALSE, present |-> FALSE, data |-> NoData]
    ELSE [raised |-> FALSE, present |-> FALSE, data |-> NoData]

\* The try block of save_wiki_cache: open(cache_path, 'w') truncates or creates
\* the file, json.dump writes the document piece by piece.  A failing open leaves
\* the file system alone; a failure during the dump leaves the pieces written.
WriteAttempt(fs, path, payload, fault, time) ==
    IF fault.kind = "none"
        THEN [exc |-> "none", fs |-> WriteFile(fs, path, Serialize(payload), time)]
    ELSE IF fault.kind = "open"
        THEN [exc |-> "io", fs |-> fs]
    ELSE IF fault.kind = "write"
        THEN [exc |-> "io",
              fs |-> WriteFile(fs, path, SubSeq(Serialize(payload), 1, fault.n), time)]
    ELSE [exc |-> "other",
          fs |-> WriteFile(fs, path, SubSeq(Serialize(payload), 1, fault.n), time)]

\* save_wiki_cache catching IOError only
Mut_save_wiki_cache_catch_io_only(fs, data, fault, time) ==
    LET cache_path == get_wiki_cache_path(data.repo.owner, data.repo.repo,
                                          data.repo.type, data.language)
        w == WriteAttempt(fs, cache_path, RequestPayload(data), fault, time)
    IN [raised |-> w.exc = "other", ret |-> w.exc = "none", fs |-> w.fs]

\* save_wiki_cache opening the file in append mode
Mut_save_wiki_cache_append(fs, data, fault, time) ==
    LET cache_path == get_wiki_cache_path(data.repo.owner, data.repo.repo,
                                          data.repo.type, data.language)
        old == IF Exists(fs, cache_path) THEN fs[cache_path].content ELSE <<>>
        w == WriteAttempt(fs, cache_path, RequestPayload(data), fault, time)
    IN IF fault.kind = "open" THEN [raised |-> FALSE, ret |-> FALSE, fs |-> fs]
       ELSE [raised |-> FALSE, ret |-> w.exc = "none",
             fs |-> WriteFile(fs, cache_path, old \o w.fs[cache_path].content, time)]

\* save_wiki_cache: True when the file was written, False when IOError or any
\* other Exception was raised
save_wiki_cache(fs, data, fault, time) ==
    LET cache_path == get_wiki_cache_path(data.repo.owner, data.repo.repo,
                                          data.repo.type, data.language)
        w == WriteAttempt(fs, cache_path, RequestPayload(data), fault, time)
    IN [raised |-> FALSE, ret |-> w.exc = "none", fs |-> w.fs]

----------------------------------------------------------------------------
(* The cache endpoints *)

WIKI_AUTH_CODE == <<"s">>

\* The key a WikiCacheRequest names
RequestKey(data) == [owner |-> data.repo.owner, repo |-> data.repo.repo,
                     repo_type |-> data.repo.type, language |-> data.language]

\* Language validation of get_cached_wiki and store_wiki_cache
ValidatedLanguage(language) ==
    IF language \in supported_languages THEN language ELSE default_language

\* get_cached_wiki without the language validation
Mut_get_cached_wiki_no_validation(fs, owner, repo, repo_type, language, fault) ==
    LET r == read_wiki_cache(fs, owner, repo, repo_type, language, fault)
    IN [status |-> 200,
        hkey |-> [owner |-> owner, repo |-> repo, repo_type |-> repo_type,
                  language |-> language],
        raised |-> r.raised, present |-> r.present, data |-> r.data]

\* GET /api/wiki_cache
get_cached_wiki(fs, owner, repo, repo_type, language, fault) ==
    LET lang == ValidatedLanguage(language)
        r == read_wiki_cache(fs, owner, repo, repo_type, lang, fault)
    IN [status |-> 200,
        hkey |-> [owner |-> owner, repo |-> repo, repo_type |-> repo_type,
                  language |-> lang],
        raised |-> r.raised, present |-> r.present, data |-> r.data]

\* store_wiki_cache without the language validation
Mut_store_wiki_cache_no_validation(fs, request_data, fault, time) ==
    LET w == save_wiki_cache(fs, request_data, fault, time)
    IN [status |-> IF w.ret THEN 200 ELSE 500,
        hkey |-> RequestKey(request_data),
        raised |-> w.raised, ret |-> w.ret, fs |-> w.fs]

\* POST /api/wiki_cache
store_wiki_cache(fs, request_data, fault, time) ==
    LET data == [request_data EXCEPT !.language = ValidatedLanguage(@)]
        w == save_wiki_cache(fs, data, fault, time)
    IN [status |-> IF w.ret THEN 200 ELSE 500,
        hkey |-> RequestKey(data),
        raised |-> w.raised, ret |-> w.ret, fs |-> w.fs]

\* not authorization_code or WIKI_AUTH_CODE != authorization_code
CodeInvalid(code) ==
    \/ ~code.given
    \/ code.text = <<>>
    \/ WIKI_AUTH_CODE /= code.text

\* delete_wiki_cache without the authorization check
Mut_delete_wiki_cache_no_auth(fs, owner, repo, repo_type, language, code, mode, fault) ==
    LET cache_path == get_wiki_cache_path(owner, repo, repo_type, language) IN
    IF language \notin supported_languages THEN [status |-> 400, fs |-> fs]
    ELSE IF Exists(fs, cache_path)
        THEN IF fault.kind = "remove" THEN [status |-> 500, fs |-> fs]
             ELSE [status |-> 200, fs |-> RemoveFile(fs, cache_path)]
    ELSE [status |-> 404, fs |-> fs]

\* delete_wiki_cache removing every file of the directory
Mut_delete_wiki_cache_clear_dir(fs, owner, repo, repo_type, language, code, mode, fault) ==
    LET cache_path == get_wiki_cache_path(owner, repo, repo_type, language) IN
    IF language \notin supported_languages THEN [status |-> 400, fs |-> fs]
    ELSE IF mode /\ CodeInvalid(code) THEN [status |-> 401, fs |-> fs]
    ELSE IF Exists(fs, cache_path)
        THEN IF fault.kind = "remove" THEN [status |-> 500, fs |-> fs]
             ELSE [status |-> 200, fs |-> EmptyDir]
    ELSE [status |-> 404, fs |-> fs]

\* DELETE /api/wiki_cache
delete_wiki_cache(fs, owner, repo, repo_type, language, code, mode, fault) ==
    LET cache_path == get_wiki_cache_path(owner, repo, repo_type, language) IN
    IF language \notin supported_languages THEN [status |-> 400, fs |-> fs]
    ELSE IF mode /\ CodeInvalid(code) THEN [status |-> 401, fs |-> fs]
    ELSE IF Exists(fs, cache_path)
        THEN IF fault.kind = "remove" THEN [status |-> 500, fs |-> fs]
             ELSE [status |-> 200, fs |-> RemoveFile(fs, cache_path)]
    ELSE [status |-> 404, fs |-> fs]

----------------------------------------------------------------------------
(* JSON texts, as json.loads and response.json() read them.  A text is a    *)
(* string; a value is a record [t, s, items]: a number or a string with its *)
(* text s, an array with its items, an object with its members in the order *)
(* of the text (each a value of kind "member": key s, value items[1]).  The *)
(* texts of the model are made of digits, double-quoted strings without     *)
(* escapes, arrays, objects and spaces.                                     *)

JValue(t, s, items) == [t |-> t, s |-> s, items |-> items]

\* The Python value None, where a JSON value may stand
JNone == JValue("None", <<>>, <<>>)

\* The nesting depth at which the decoder of the interpreter gives up with
\* RecursionError (sys.getrecursionlimit(), 1000 by default), scaled down
RecursionLimit == 2

DigitChars == <<"0", "1", "2", "3", "4", "5", "6", "7", "8", "9">>

RECURSIVE SkipWs(_)
SkipWs(s) == IF s /= <<>> /\ Head(s) \in {" ", "\n"} THEN SkipWs(Tail(s)) ELSE s

RECURSIVE DigitRun(_)
\* The length of the longest prefix of s made of digits
DigitRun(s) ==
    IF s /= <<>> /\ (\E d \in DOMAIN DigitChars : DigitChars[d] = Head(s))
    THEN 1 + DigitRun(Tail(s)) ELSE 0

Parsed(v, rest) == [kind |-> "value", v |-> v, rest |-> rest]
ParseFails(kind) == [kind |-> kind, v |-> JNone, rest |-> <<>>]

\* A string literal at the head of s: the text up to the closing quote
ParseString(s) ==
    IF s = <<>> \/ Head(s) /= "\"" THEN ParseFails("JSONDecodeError")
    ELSE IF \E i \in 2..Len(s) : s[i] = "\""
         THEN LET close == CHOOSE i \in 2..Len(s) :
                              s[i] = "\"" /\ \A j \in 2..(i - 1) : s[j] /= "\""
              IN Parsed(JValue("string", SubSeq(s, 2, close - 1), <<>>),
                        SubSeq(s, close + 1, Len(s)))
         ELSE ParseFails("JSONDecodeError")

RECURSIVE ParseValue(_, _)
RECURSIVE ParseItems(_, _, _)
RECURSIVE ParseMembers(_, _, _)

\* The value at the head of s, depth containers deep, and the text behind it
ParseValue(s, depth) ==
    LET t == SkipWs(s) IN
    IF t = <<>> THEN ParseFails("JSONDecodeError")
    ELSE IF Head(t) = "0" THEN Parsed(JValue("number", <<"0">>, <<>>), Tail(t))
    ELSE IF DigitRun(t) > 0
         THEN Parsed(JValue("number", SubSeq(t, 1, DigitRun(t)), <<>>),
                     SubSeq(t, DigitRun(t) + 1, Len(t)))
    ELSE IF Head(t) = "\"" THEN ParseString(t)
    ELSE IF Head(t) \in {"[", "{"}
         THEN IF depth + 1 > RecursionLimit THEN ParseFails("RecursionError")
              ELSE LET u == SkipWs(Tail(t)) IN
                   IF Head(t) = "[" /\ u /= <<>> /\ Head(u) = "]"
                       THEN Parsed(JValue("array", <<>>, <<>>), Tail(u))
                   ELSE IF Head(t) = "{" /\ u /= <<>> /\ Head(u) = "}"
                       THEN Parsed(JValue("object", <<>>, <<>>), Tail(u))
                   ELSE IF Head(t) = "[" THEN ParseItems(Tail(t), depth + 1, <<>>)
                   ELSE ParseMembers(Tail(t), depth + 1, <<>>)
    ELSE ParseFails("JSONDecodeError")

\* The items of an array behind its bracket, up to the closing bracket
ParseItems(s, depth, acc) ==
    LET r == ParseValue(s, depth)
        u == SkipWs(r.rest)
    IN IF r.kind /= "value" THEN r
       ELSE IF u = <<>> THEN ParseFails("JSONDecodeError")
       ELSE IF Head(u) = "," THEN ParseItems(Tail(u), depth, Append(acc, r.v))
       ELSE IF Head(u) = "]" THEN Parsed(JValue("array", <<>>, Append(acc, r.v)), Tail(u))
       ELSE ParseFails("JSONDecodeError")

\* The members of an object behind its brace, up to the closing brace
ParseMembers(s, depth, acc) ==
    LET k == ParseString(SkipWs(s))
        c == SkipWs(k.rest)
    IN IF k.kind /= "value" THEN k
       ELSE IF c = <<>> \/ Head(c) /= ":" THEN ParseFails("JSONDecodeError")
       ELSE LET r == ParseValue(Tail(c), depth)
                u == SkipWs(r.rest)
                m == Append(acc, JValue("member", k.v.s, <<r.v>>))
            IN IF r.kind /= "value" THEN r
               ELSE IF u = <<>> THEN ParseFails("JSONDecodeError")
               ELSE IF Head(u) = "," THEN ParseMembers(Tail(u), depth, m)
               ELSE IF Head(u) = "}" THEN Parsed(JValue("object", <<>>, m), Tail(u))
               ELSE ParseFails("JSONDecodeError")

\* json.loads(text): the value, or the exception raised
JsonLoads(text) ==
    LET r == ParseValue(text, 0) IN
    IF r.kind /= "value" THEN r
    ELSE IF SkipWs(r.rest) /= <<>> THEN ParseFails("JSONDecodeError")
    ELSE r

----------------------------------------------------------------------------
(* The stream decoder: _handle_stream_response, the same in the three       *)
(* clients.  It is an async generator: each pull of the consumer runs it    *)
(* from where it stood to its next yield, to its end, or to an exception.   *)

DataPrefix == <<"d", "a", "t", "a", ":", " ">>
DoneSentinel == <<"[", "D", "O", "N", "E", "]">>

\* data.strip(): s from its first to its last character that is no white space
Strip(s) ==
    LET kept == { i \in 1..Len(s) : s[i] \notin {" ", "\n"} } IN
    IF kept = {} THEN <<>>
    ELSE SubSeq(s, CHOOSE i \in kept : \A j \in kept : i <= j,
                   CHOOSE i \in kept : \A j \in kept : i >= j)

\* line[6:]
LinePayload(line) == SubSeq(line, Len(DataPrefix) + 1, Len(line))

RECURSIVE handle_stream_response(_, _)
\* The generator resumed with lines[pos] the next line to read: it yields a
\* chunk, ends (no line left, or the sentinel), or raises what json.loads
\* raised and the except clause does not catch
handle_stream_response(lines, pos) ==
    IF pos > Len(lines) THEN [kind |-> "end", v |-> JNone, pos |-> pos]
    ELSE IF ~StartsWith(lines[pos], DataPrefix)
         THEN handle_stream_response(lines, pos + 1)
    ELSE IF Strip(LinePayload(lines[pos])) = DoneSentinel
         THEN [kind |-> "end", v |-> JNone, pos |-> pos]
    ELSE LET r == JsonLoads(LinePayload(lines[pos])) IN
         IF r.kind = "value" THEN [kind |-> "chunk", v |-> r.v, pos |-> pos + 1]
         ELSE IF r.kind = "JSONDecodeError" THEN handle_stream_response(lines, pos + 1)
         ELSE [kind |-> r.kind, v |-> JNone, pos |-> pos]

----------------------------------------------------------------------------
(* The state of the clients *)

\* The environment variables the clients read
EnvKeys == {"DEEPSEEK_API_KEY", "ZHIPUAI_API_KEY", "MOONSHOT_API_KEY",
            "WENXIN_API_KEY", "LINGYI_API_KEY", "MINIMAX_API_KEY",
            "DOUBAO_API_KEY", "STEPFUN_API_KEY", "XUNFEI_API_KEY"}

\* A Python value that is a string or None
None == [given |-> FALSE, text |-> <<>>]
Str(text) == [given |-> TRUE, text |-> text]

\* An exception: its class and the text it was made with
Error(type, msg) == [type |-> type, msg |-> msg]

\* What there is before anything is constructed or called: no key variable
\* set, no exception, no client object, no call, no httpx client, no generator
Absent ==
    [env |-> [k \in EnvKeys |-> None],
     error |-> Error("", <<>>),
     adapter |-> [state |-> "none", cls |-> "", provider |-> <<>>, api_key |-> None,
                  error |-> Error("", <<>>), consulted |-> {},
                  args |-> [provider |-> <<>>, api_key |-> None]],
     call |-> [pc |-> "idle", stream |-> FALSE, requests |-> 0, ret |-> JNone,
               error |-> Error("", <<>>),
               args |-> [model |-> None, max_tokens |-> 0, kwargs |-> <<>>],
               request |-> [url |-> <<>>, headers |-> <<>>, data |-> <<>>],
               outcome |-> [kind |-> "none", status |-> 0, text |-> <<>>]],
     conn |-> [client |-> "none", response |-> "none"],
     stream |-> [pc |-> "none", lines |-> <<>>, pos |-> 1, chunks |-> <<>>,
                 error |-> "", pulledWith |-> {}],
     shared |-> [built |-> <<>>, calls |-> <<>>],
     embed |-> [rng |-> 0, called |-> FALSE, str |-> FALSE, texts |-> <<>>, ret |-> <<>>,
                first |-> <<>>],
     bridge |-> [pc |-> "idle", model_type |-> "", running |-> FALSE, stream |-> FALSE,
                 thread |-> "none",
                 new_loop |-> "none", ranOn |-> "none", worker |-> <<>>, ret |-> <<>>,
                 error |-> Error("", <<>>)]]

ClientIdle ==
    /\ env = Absent.env
    /\ adapter = Absent.adapter
    /\ call = Absent.call
    /\ conn = Absent.conn
    /\ stream = Absent.stream

\* No calls in flight on a shared client, no call of the embedder, no call
\* of DeepSeekClient.call
OtherIdle ==
    /\ shared = Absent.shared
    /\ embed = Absent.embed
    /\ bridge = Absent.bridge

----------------------------------------------------------------------------
(* Construction of the clients.  The texts of the exceptions are strings    *)
(* like every other; a literal of the source is written as one symbol of    *)
(* the string, in English.                                                  *)

\* s.lower()
Lower(s) ==
    LET upper == <<"A", "B", "C", "D", "E", "F", "G", "H", "I", "J", "K", "L", "M",
                   "N", "O", "P", "Q", "R", "S", "T", "U", "V", "W", "X", "Y", "Z">>
        lower == <<"a", "b", "c", "d", "e", "f", "g", "h", "i", "j", "k", "l", "m",
                   "n", "o", "p", "q", "r", "s", "t", "u", "v", "w", "x", "y", "z">>
    IN [i \in 1..Len(s) |->
           IF \E j \in 1..Len(upper) : upper[j] = s[i]
           THEN lower[CHOOSE j \in 1..Len(upper) : upper[j] = s[i]]
           ELSE s[i]]

\* bool(x) of a string or None
Truthy(x) == x.given /\ x.text /= <<>>

\* provider_configs: the environment variable, the base URL and the models of
\* each provider; a URL and a model name are one symbol each
provider_configs ==
    [p \in { <<"m","o","o","n","s","h","o","t">>, <<"w","e","n","x","i","n">>,
             <<"l","i","n","g","y","i">>, <<"m","i","n","i","m","a","x">>,
             <<"d","o","u","b","a","o">>, <<"s","t","e","p","f","u","n">>,
             <<"x","u","n","f","e","i">> } |->
        CASE p = <<"m","o","o","n","s","h","o","t">> ->
                 [env_key |-> "MOONSHOT_API_KEY",
                  default_base_url |-> "https://api.moonshot.cn/v1",
                  models |-> <<"moonshot-v1-8k", "moonshot-v1-32k", "moonshot-v1-128k">>]
          [] p = <<"w","e","n","x","i","n">> ->
                 [env_key |-> "WENXIN_API_KEY",
                  default_base_url |->
                      "https://aip.baidubce.com/rpc/2.0/ai_custom/v1/wenxinworkshop",
                  models |-> <<"ernie-bot", "ernie-bot-turbo", "ernie-bot-4">>]
          [] p = <<"l","i","n","g","y","i">> ->
                 [env_key |-> "LINGYI_API_KEY",
                  default_base_url |-> "https://api.lingyiwanwu.com/v1",
                  models |-> <<"yi-large", "yi-medium", "yi-small", "yi-vision">>]
          [] p = <<"m","i","n","i","m","a","x">> ->
                 [env_key |-> "MINIMAX_API_KEY",
                  default_base_url |-> "https://api.minimax.chat/v1",
                  models |-> <<"abab6.5", "abab6.5-chat", "abab5.5-chat">>]
          [] p = <<"d","o","u","b","a","o">> ->
                 [env_key |-> "DOUBAO_API_KEY",
                  default_base_url |-> "https://ark.cn-beijing.volces.com/api/v3",
                  models |-> <<"doubao-lite-4k", "doubao-lite-32k", "doubao-lite-128k",
                               "doubao-pro-4k", "doubao-pro-32k">>]
          [] p = <<"s","t","e","p","f","u","n">> ->
                 [env_key |-> "STEPFUN_API_KEY",
                  default_base_url |-> "https://api.stepfun.com/v1",
                  models |-> <<"step-1-8k", "step-1-32k", "step-1-128k", "step-1-256k">>]
          [] p = <<"x","u","n","f","e","i">> ->
                 [env_key |-> "XUNFEI_API_KEY",
                  default_base_url |-> "https://spark-api.xf-yun.com/v1",
                  models |-> <<"spark-lite", "spark-pro", "spark-max">>]]

\* The client with its key resolved: api_key or os.environ.get(env_key), the
\* variable read only when api_key is None or empty; no key, no client
ResolveKey(cls, provider, name, api_key, environ, env_key) ==
    LET key == IF Truthy(api_key) THEN api_key ELSE environ[env_key]
        consulted == IF Truthy(api_key) THEN {} ELSE {env_key}
    IN IF Truthy(key)
       THEN [state |-> "built", cls |-> cls, provider |-> provider, api_key |-> key,
             error |-> Absent.error, consulted |-> consulted, args |-> Absent.adapter.args]
       ELSE [state |-> "failed", cls |-> cls, provider |-> provider, api_key |-> key,
             error |-> Error("ValueError", name \o <<" API key not set, set ", env_key>>),
             consulted |-> consulted, args |-> Absent.adapter.args]

\* The constructor keeping whatever key it finds, the check left to the calls
Mut_DeepSeekClient_init_no_check(api_key, environ) ==
    [state |-> "built", cls |-> "DeepSeekClient", provider |-> <<>>,
     api_key |-> IF Truthy(api_key) THEN api_key ELSE environ["DEEPSEEK_API_KEY"],
     error |-> Absent.error,
     consulted |-> IF Truthy(api_key) THEN {} ELSE {"DEEPSEEK_API_KEY"},
     args |-> Absent.adapter.args]

\* DeepSeekClient.__init__
DeepSeekClient_init(api_key, environ) ==
    ResolveKey("DeepSeekClient", <<>>, <<"DeepSeek">>, api_key, environ, "DEEPSEEK_API_KEY")

\* ZhipuAIClient.__init__
ZhipuAIClient_init(api_key, environ) ==
    ResolveKey("ZhipuAIClient", <<>>, <<"ZhipuAI">>, api_key, environ, "ZHIPUAI_API_KEY")

\* The constructor with the environment variable before the parameter
Mut_ChineseModelsClient_init_env_first(provider, api_key, environ) ==
    IF Lower(provider) \notin DOMAIN provider_configs
    THEN [Absent.adapter EXCEPT !.state = "failed", !.cls = "ChineseModelsClient",
                           !.provider = Lower(provider),
                           !.error = Error("ValueError", <<"unsupported provider: ">> \o provider)]
    ELSE LET env_key == provider_configs[Lower(provider)].env_key IN
         ResolveKey("ChineseModelsClient", Lower(provider), provider,
                    IF Truthy(environ[env_key]) THEN environ[env_key] ELSE api_key,
                    environ, env_key)

\* The constructor taking the first provider for one it does not know
Mut_ChineseModelsClient_init_default_provider(provider, api_key, environ) ==
    LET p == IF Lower(provider) \in DOMAIN provider_configs
             THEN Lower(provider) ELSE <<"m","o","o","n","s","h","o","t">>
    IN ResolveKey("ChineseModelsClient", p, provider, api_key, environ,
                  provider_configs[p].env_key)

\* ChineseModelsClient.__init__
ChineseModelsClient_init(provider, api_key, environ) ==
    IF Lower(provider) \notin DOMAIN provider_configs
    THEN [Absent.adapter EXCEPT !.state = "failed", !.cls = "ChineseModelsClient",
                           !.provider = Lower(provider),
                           !.error = Error("ValueError", <<"unsupported provider: ">> \o provider)]
    ELSE ResolveKey("ChineseModelsClient", Lower(provider), provider, api_key, environ,
                    provider_configs[Lower(provider)].env_key)

----------------------------------------------------------------------------
(* chat_completion.  The coroutine opens an httpx.AsyncClient and awaits    *)
(* client.post, which returns once the whole body of the response has been  *)
(* read (or raises); what follows runs without another await on the         *)
(* response, and leaving the async with block closes the client.            *)

RECURSIVE IntText(_)
\* str(n) of a natural number
IntText(n) ==
    IF n < 10 THEN <<DigitChars[n + 1]>>
    ELSE IntText(n \div 10) \o <<DigitChars[(n % 10) + 1]>>

\* response.aiter_lines() of a response whose body has been read: the body
\* split at its line breaks, no empty line after a final line break
AiterLines(text) ==
    IF text = <<>> THEN <<>>
    ELSE LET parts == Split(text, "\n") IN
         IF parts[Len(parts)] = <<>> THEN SubSeq(parts, 1, Len(parts) - 1) ELSE parts

\* The name the client gives itself in its messages
ClientName(a) ==
    IF a.cls = "DeepSeekClient" THEN <<"DeepSeek">>
    ELSE IF a.cls = "ZhipuAIClient" THEN <<"ZhipuAI">>
    ELSE a.provider

\* The texts of the exceptions of chat_completion.  raise Exception(error_msg)
\* for a status other than 200 stands inside the try: the last except clause
\* catches it and raises another Exception around its text.
Message(a, kind, status_code, text) ==
    IF kind = "timeout" THEN ClientName(a) \o <<" API request timed out">>
    ELSE IF kind = "error" THEN ClientName(a) \o <<" API request error: ">> \o text
    ELSE ClientName(a) \o <<" API request error: ">> \o ClientName(a)
            \o <<" API request failed: ">> \o IntText(status_code) \o <<" - ">> \o text

\* The client left open by the async with block
Mut_ExitClient_left_open(response) == [client |-> "open", response |-> response]

\* Leaving the async with block: the client is closed
ExitClient(response) == [client |-> "closed", response |-> response]

\* Every status from 200 to 299 taken for a success
Mut_IsSuccess_2xx(status_code) == status_code \in 200..299

\* Every status below 400 taken for a success
Mut_IsSuccess_below_400(status_code) == status_code < 400

\* response.status_code == 200
IsSuccess(status_code) == status_code = 200

\* The body reshaped: of an object only its first member kept
Mut_ResponseJson_first_member(text) ==
    LET r == JsonLoads(text) IN
    IF r.kind = "value" /\ r.v.t = "object" /\ Len(r.v.items) > 0
    THEN [r EXCEPT !.v = r.v.items[1].items[1]] ELSE r

\* response.json()
ResponseJson(text) == JsonLoads(text)

\* self.available_models; for the two clients of one provider the models of
\* model_mapping, in its order
available_models(a) ==
    IF a.cls = "DeepSeekClient"
    THEN <<"deepseek-chat", "deepseek-coder", "deepseek-chat-v1.5", "deepseek-coder-v1.5">>
    ELSE IF a.cls = "ZhipuAIClient"
    THEN <<"glm-4.6", "glm-4", "glm-4-flash", "glm-4-air", "glm-4-long", "chatglm3",
           "glm-3-turbo">>
    ELSE provider_configs[a.provider].models

\* The model of a call that names none taken from the end of the list
Mut_ResolveModel_last_entry(a, model) ==
    IF a.cls = "ChineseModelsClient" /\ ~Truthy(model)
    THEN <<available_models(a)[Len(available_models(a))]>>
    ELSE IF model.given THEN model.text
    ELSE <<available_models(a)[Len(available_models(a))]>>

\* The model of the call.  model is None when the caller names no model:
\* DeepSeekClient and ZhipuAIClient then have the default of the parameter
\* and send model_mapping.get(model, model), a mapping of each name to
\* itself; ChineseModelsClient has "if not model: model =
\* self.available_models[0]".  A model outside the list is logged only.
ResolveModel(a, model) ==
    IF a.cls = "DeepSeekClient" THEN (IF model.given THEN model.text ELSE <<"deepseek-chat">>)
    ELSE IF a.cls = "ZhipuAIClient" THEN (IF model.given THEN model.text ELSE <<"glm-4.6">>)
    ELSE IF Truthy(model) THEN model.text
    ELSE <<available_models(a)[1]>>

\* The body of the request: data, then data.update(kwargs).  max_tokens is 0
\* for a call without one (None and 0 are both left out).
RequestData(a, args, streamed) ==
    LET common == [messages |-> "messages", temperature |-> "0.7", top_p |-> "0.8",
                   stream |-> streamed]
        plain == [model |-> ResolveModel(a, args.model)] @@ common
        data == IF a.cls = "ChineseModelsClient" /\ a.provider = <<"w","e","n","x","i","n">>
                THEN IF args.max_tokens /= 0
                     THEN [max_output_tokens |-> args.max_tokens] @@ common
                     ELSE common
                ELSE LET d == IF args.max_tokens /= 0
                              THEN [max_tokens |-> args.max_tokens] @@ plain
                              ELSE plain
                     IN IF a.cls = "ChineseModelsClient"
                           /\ a.provider = <<"m","i","n","i","m","a","x">>
                        THEN [beam_width |-> 1] @@ d
                        ELSE d
    IN args.kwargs @@ data

\* Every provider given the Bearer header
Mut_get_headers_bearer_only(a) ==
    [ContentType |-> "application/json", Authorization |-> <<"Bearer ">> \o a.api_key.text]

\* _get_headers (Content-Type and X-Source are the fields ContentType and
\* XSource)
get_headers(a) ==
    LET headers == [ContentType |-> "application/json",
                    Authorization |-> <<"Bearer ">> \o a.api_key.text]
    IN IF a.cls = "ChineseModelsClient" /\ a.provider = <<"w","e","n","x","i","n">>
       THEN [headers EXCEPT !.Authorization = <<"token ">> \o a.api_key.text]
       ELSE IF a.cls = "ChineseModelsClient" /\ a.provider = <<"m","i","n","i","m","a","x">>
       THEN [XSource |-> "openapi"] @@ headers
       ELSE headers

\* The URL of the request, of a client built without a base_url of its own:
\* the base URL and the path
RequestUrl(a) ==
    IF a.cls = "DeepSeekClient" THEN <<"https://api.deepseek.com/v1", "/chat/completions">>
    ELSE IF a.cls = "ZhipuAIClient"
    THEN <<"https://open.bigmodel.cn/api/paas/v4", "/chat/completions">>
    ELSE IF a.provider = <<"w","e","n","x","i","n">>
    THEN <<provider_configs[a.provider].default_base_url, "/chat/eb-instant">>
    ELSE <<provider_configs[a.provider].default_base_url, "/chat/completions">>

\* The coroutine always given to loop.run_until_complete
Mut_call_dispatch_always_loop(running) == "loop"

\* DeepSeekClient.call, "if loop.is_running()": the coroutine is run by a
\* thread started for it when the loop of the caller is running, and by
\* loop.run_until_complete of that loop when it is not
call_dispatch(running) == IF running THEN "thread" ELSE "loop"

\* The model of the call kept by the client as its first model
Mut_chat_completion_self_keeps_model(a, args) ==
    IF args.model.given THEN [a EXCEPT !.api_key = args.model] ELSE a

\* The client after chat_completion has run its statements up to the post:
\* none of them assigns an attribute of self
chat_completion_self(a, args) == a

\* The request posted twice
Mut_chat_completion_post_twice(a, c, args, streamed) ==
    [c EXCEPT !.pc = "posting", !.stream = streamed, !.requests = @ + 2, !.args = args,
              !.request = [url |-> RequestUrl(a), headers |-> get_headers(a),
                           data |-> RequestData(a, args, streamed)]]

\* client.post(url, headers=self._get_headers(), json=data) is called
chat_completion_post(a, c, args, streamed) ==
    [c EXCEPT !.pc = "posting", !.stream = streamed, !.requests = @ + 1, !.args = args,
              !.request = [url |-> RequestUrl(a), headers |-> get_headers(a),
                           data |-> RequestData(a, args, streamed)]]

Raised(c, error, response) ==
    [call |-> [c EXCEPT !.pc = "raised", !.error = error],
     conn |-> ExitClient(response),
     stream |-> Absent.stream]

\* The rest of the coroutine, from what client.post gave: the call, the
\* client and the generator returned, if any
chat_completion_response(a, c, outcome) ==
    IF outcome.kind = "timeout" THEN Raised(c, Error("Exception", Message(a, "timeout", 0, <<>>)), "none")
    ELSE IF outcome.kind = "error"
         THEN Raised(c, Error("Exception", Message(a, "error", 0, outcome.text)), "none")
    ELSE IF ~IsSuccess(outcome.status)
         THEN Raised(c, Error("Exception", Message(a, "failed", outcome.status, outcome.text)),
                     "read")
    ELSE IF c.stream
         THEN [call |-> [c EXCEPT !.pc = "returned"],
               conn |-> ExitClient("read"),
               stream |-> [Absent.stream EXCEPT !.pc = "open",
                                           !.lines = AiterLines(outcome.text)]]
    ELSE LET r == ResponseJson(outcome.text) IN
         IF r.kind = "value"
         THEN [call |-> [c EXCEPT !.pc = "returned", !.ret = r.v],
               conn |-> ExitClient("read"),
               stream |-> Absent.stream]
         ELSE Raised(c, Error("Exception", Message(a, "error", 0, <<r.kind>>)), "read")

----------------------------------------------------------------------------
(* The cache specification: requests to the three cache endpoints, one      *)
(* after the other, with the I/O failures the handlers provide for.         *)

Key(owner, repo, repo_type, language) ==
    [owner |-> owner, repo |-> repo, repo_type |-> repo_type, language |-> language]

NoKey == Key(<<>>, <<>>, <<>>, <<>>)

\* The keys of the requests: one in a supported language, the same repository
\* in an unsupported language, and another repository
RequestKeys ==
    { Key(<<"a">>, <<"b">>, <<"g">>, <<"e","n">>),
      Key(<<"a">>, <<"b">>, <<"g">>, <<"x","x">>),
      Key(<<"a","_","b">>, <<"c">>, <<"g">>, <<"e","n">>) }

\* The generated content a store request carries
Contents ==
    { [wiki_structure |-> JVal("w1"), generated_pages |-> JVal("p1"),
       provider |-> JVal("deepseek"), model |-> JVal("m1")],
      [wiki_structure |-> JVal("w2"), generated_pages |-> JVal("p2"),
       provider |-> JVal("zhipuai"), model |-> JVal("m2")] }

\* WikiCacheRequest
Request(k, c) ==
    [repo |-> [owner |-> k.owner, repo |-> k.repo, type |-> k.repo_type],
     language |-> k.language,
     wiki_structure |-> c.wiki_structure,
     generated_pages |-> c.generated_pages,
     provider |-> c.provider,
     model |-> c.model]

StoreRequests == { Request(k, c) : k \in RequestKeys, c \in Contents }

NoCode == [given |-> FALSE, text |-> <<>>]
Codes == { NoCode,
           [given |-> TRUE, text |-> <<"s">>],
           [given |-> TRUE, text |-> <<"x">>] }

ReadFaults == { NoFault, [kind |-> "open", n |-> 0] }
SaveFaults == { NoFault, [kind |-> "open", n |-> 0],
                [kind |-> "write", n |-> 3], [kind |-> "other", n |-> 3] }
DeleteFaults == { NoFault, [kind |-> "remove", n |-> 0] }

\* A cache directory left by an earlier version: a document without wiki_structure
LegacyDir ==
    WriteFile(EmptyDir, get_wiki_cache_path(<<"a","_","b">>, <<"c">>, <<"g">>, <<"e","n">>),
              <<OpenBrace, Member("generated_pages", JVal("p0")), CloseBrace>>, 0)

NoRequest ==
    [op |-> "none", key |-> NoKey, hkey |-> NoKey, code |-> NoCode,
     payload |-> NoData, fault |-> NoFault, status |-> 0, raised |-> FALSE,
     ret |-> FALSE, present |-> FALSE, data |-> NoData, touched |-> {},
     existed |-> FALSE, fsCalls |-> {},
     before |-> [raised |-> FALSE, present |-> FALSE, data |-> NoData]]

\* The blocking file-system calls of a request and the thread each runs on:
\* read_wiki_cache, save_wiki_cache and delete_wiki_cache are coroutines that
\* call os.path.exists, open, json.load, json.dump and os.remove themselves,
\* on the thread of the event loop; nothing is handed to asyncio.to_thread.
\* A delete refused with 400 or 401 has not come to the file system.
BlockingCalls(op, status, existed) ==
    IF op = "get"
    THEN { [call |-> "os.path.exists", thread |-> "loop"] }
            \cup (IF existed THEN { [call |-> "open", thread |-> "loop"],
                                   [call |-> "json.load", thread |-> "loop"] }
                  ELSE {})
    ELSE IF op = "store"
    THEN { [call |-> "open", thread |-> "loop"], [call |-> "json.dump", thread |-> "loop"] }
    ELSE IF op = "delete" /\ status \notin {400, 401}
    THEN { [call |-> "os.path.exists", thread |-> "loop"] }
            \cup (IF existed THEN { [call |-> "os.remove", thread |-> "loop"] } ELSE {})
    ELSE {}

\* What is kept of the request before the last: a store that succeeded, a delete
Summary(r) ==
    IF (r.op = "store" /\ r.status = 200) \/ r.op = "delete"
    THEN [op |-> r.op, key |-> r.key, payload |-> r.payload, status |-> r.status]
    ELSE [op |-> "none", key |-> NoKey, payload |-> NoData, status |-> 0]

\* The variables of each part of the model while another part runs
CacheIdle ==
    /\ files = << >>
    /\ now = 0
    /\ last = NoRequest
    /\ prev = Summary(NoRequest)
    /\ authMode = FALSE

RaceIdle ==
    /\ pending = {}
    /\ finished = <<>>

ListIdle ==
    /\ scanPc = "idle"
    /\ scanNames = {}
    /\ scanEntries = <<>>
    /\ listing = <<>>
    /\ scanStatFailed = {}
    /\ scanGone = {}

PathIdle ==
    /\ keyA = NoKey
    /\ keyB = NoKey
    /\ pathA = NoPath
    /\ pathB = NoPath
    /\ entryA = NoEntry

Init ==
    /\ files \in {EmptyDir, LegacyDir}
    /\ now = 0
    /\ last = NoRequest
    /\ prev = Summary(NoRequest)
    /\ authMode \in BOOLEAN
    /\ PathIdle
    /\ RaceIdle
    /\ ListIdle
    /\ ClientIdle
    /\ OtherIdle

Get(k, fault) ==
    LET r == get_cached_wiki(files, k.owner, k.repo, k.repo_type, k.language, fault) IN
    /\ last' = [NoRequest EXCEPT !.op = "get", !.key = k, !.hkey = r.hkey,
                                 !.fault = fault, !.status = r.status,
                                 !.raised = r.raised, !.present = r.present,
                                 !.data = r.data,
                                 !.existed = Exists(files, KeyPath(r.hkey)),
                                 !.fsCalls = BlockingCalls("get", r.status,
                                                 Exists(files, KeyPath(r.hkey)))]
    /\ prev' = Summary(last)
    /\ UNCHANGED <<files, now, authMode>>
    /\ UNCHANGED pathVars
    /\ UNCHANGED otherVars
    /\ UNCHANGED raceVars
    /\ UNCHANGED listVars
    /\ UNCHANGED clientVars

Store(request_data, fault) ==
    LET r == store_wiki_cache(files, request_data, fault, now) IN
    /\ files' = r.fs
    /\ last' = [NoRequest EXCEPT !.op = "store", !.key = RequestKey(request_data),
                                 !.hkey = r.hkey,
                                 !.payload = RequestPayload(request_data),
                                 !.fault = fault, !.status = r.status,
                                 !.raised = r.raised, !.ret = r.ret,
                                 !.touched = Touched(files, r.fs),
                                 !.existed = Exists(files, KeyPath(r.hkey)),
                                 !.fsCalls = BlockingCalls("store", r.status,
                                                 Exists(files, KeyPath(r.hkey))),
                                 !.before = read_wiki_cache(files, r.hkey.owner, r.hkey.repo,
                                                            r.hkey.repo_type,
                                                            r.hkey.language, NoFault)]
    /\ prev' = Summary(last)
    /\ UNCHANGED <<now, authMode>>
    /\ UNCHANGED pathVars
    /\ UNCHANGED otherVars
    /\ UNCHANGED raceVars
    /\ UNCHANGED listVars
    /\ UNCHANGED clientVars

Delete(k, code, fault) ==
    LET r == delete_wiki_cache(files, k.owner, k.repo, k.repo_type, k.language,
                               code, authMode, fault) IN
    /\ files' = r.fs
    /\ last' = [NoRequest EXCEPT !.op = "delete", !.key = k, !.hkey = k,
                                 !.code = code, !.fault = fault,
                                 !.status = r.status,
                                 !.touched = Touched(files, r.fs),
                                 !.existed = Exists(files, KeyPath(k)),
                                 !.fsCalls = BlockingCalls("delete", r.status,
                                                 Exists(files, KeyPath(k)))]
    /\ prev' = Summary(last)
    /\ UNCHANGED <<now, authMode>>
    /\ UNCHANGED pathVars
    /\ UNCHANGED otherVars
    /\ UNCHANGED raceVars
    /\ UNCHANGED listVars
    /\ UNCHANGED clientVars

Next ==
    \/ \E k \in RequestKeys, fault \in ReadFaults : Get(k, fault)
    \/ \E request_data \in StoreRequests, fault \in SaveFaults : Store(request_data, fault)
    \/ \E k \in RequestKeys, code \in Codes, fault \in DeleteFaults : Delete(k, code, fault)

Spec == Init /\ [][Next]_vars

----------------------------------------------------------------------------
(* Properties of the cache specification *)

\* The last request and the one before it name the same key
SameKeyAsBefore == last.key = prev.key

Authorized == ~authMode \/ (last.code.given /\ last.code.text = WIKI_AUTH_CODE)

\* C2 as stated: with the authorization mode on, a delete whose code is missing
\* or wrong fails with the authorization error (401) and changes no file.
C2_AsStated ==
    (authMode /\ last.op = "delete" /\ ~Authorized)
        => (last.status = 401 /\ last.touched = {})

\* C2: with the authorization mode on, a delete whose code is missing or wrong
\* changes no file; it fails with the authorization error (401) when the
\* language is supported and with status 400 when it is not.
C2_UnauthorizedDeleteFails ==
    (authMode /\ last.op = "delete" /\ ~Authorized)
        => /\ last.touched = {}
           /\ last.status = IF last.key.language \in supported_languages
                            THEN 401 ELSE 400

\* A delete with a wrong code was refused while the file it names exists
C2_Witness ==
    /\ authMode /\ last.op = "delete" /\ ~Authorized
    /\ last.status = 401
    /\ last.existed /\ Exists(files, KeyPath(last.key))

\* C3 as stated: an authorized delete removes exactly the file of its key when
\* there is one, and fails with 404 changing nothing when there is none.
C3_AsStated ==
    (last.op = "delete" /\ Authorized)
        => IF last.existed
           THEN /\ last.touched = {KeyPath(last.key)}
                /\ ~Exists(files, KeyPath(last.key))
           ELSE last.status = 404 /\ last.touched = {}

\* C3: an authorized delete in a supported language removes exactly the file of
\* its key and no other when the file exists and os.remove succeeds; it fails
\* with 404 when there is no file, with 500 when os.remove fails, and in an
\* unsupported language with 400, changing nothing in these three cases.
C3_AuthorizedDelete ==
    (last.op = "delete" /\ Authorized)
        => IF last.key.language \notin supported_languages
               THEN last.status = 400 /\ last.touched = {}
           ELSE IF ~last.existed
               THEN last.status = 404 /\ last.touched = {}
           ELSE IF last.fault.kind = "remove"
               THEN last.status = 500 /\ last.touched = {}
           ELSE /\ last.status = 200
                /\ last.touched = {KeyPath(last.key)}
                /\ ~Exists(files, KeyPath(last.key))

\* An authorized delete removed its file and another key's file is still there
C3_Witness ==
    /\ last.op = "delete" /\ Authorized
    /\ last.status = 200
    /\ last.touched = {KeyPath(last.key)}
    /\ files /= EmptyDir

\* C4 as stated: get and store hand the helper the key they were given, and a
\* store changes no file but the one of that key.
C4_AsStated ==
    (last.op \in {"get", "store"})
        => /\ last.hkey = last.key
           /\ last.touched \subseteq {KeyPath(last.key)}

\* C4: get and store leave owner, repo and repo_type as given and replace a
\* language that is not supported by the default language; a store changes no
\* file but the one of the key so obtained.
C4_KeyAfterValidation ==
    (last.op \in {"get", "store"})
        => /\ last.hkey = IF last.key.language \in supported_languages
                          THEN last.key
                          ELSE [last.key EXCEPT !.language = default_language]
           /\ last.touched \subseteq {KeyPath(last.hkey)}

\* A store in an unsupported language replaced the default language's file
C4_Witness ==
    /\ last.op = "store" /\ last.status = 200
    /\ last.key.language \notin supported_languages
    /\ last.existed
    /\ last.touched = {KeyPath([last.key EXCEPT !.language = default_language])}

\* C7: read_wiki_cache never raises and changes no file; it returns the parsed
\* record when the file exists, opens and parses cleanly, and absent otherwise
\* (no file, I/O error, malformed JSON, schema error).
C7_ReadNeverRaises ==
    (last.op = "get")
        => /\ ~last.raised
           /\ last.touched = {}
           /\ LET p == KeyPath(last.hkey) IN
              IF /\ Exists(files, p)
                 /\ last.fault = NoFault
                 /\ IsJsonObject(files[p].content)
                 /\ SchemaValid(files[p].content)
              THEN /\ last.present
                   /\ Serialize(last.data) = files[p].content
              ELSE ~last.present /\ last.data = NoData

\* A read of a file that exists but does not parse returned absent
C7_Witness ==
    /\ last.op = "get" /\ last.fault = NoFault
    /\ last.existed
    /\ ~last.present /\ ~last.raised

\* C8: save_wiki_cache never raises; it returns true exactly when no failure
\* occurred, and then the file of the key holds the serialization of the new
\* record, whether or not a file was there before.
C8_WriteNeverRaises ==
    (last.op = "store")
        => /\ ~last.raised
           /\ last.ret <=> (last.fault = NoFault)
           /\ last.ret => /\ Exists(files, KeyPath(last.hkey))
                          /\ files[KeyPath(last.hkey)].content = Serialize(last.payload)

\* A write replaced an existing file and returned true
C8_Witness ==
    /\ last.op = "store" /\ last.ret
    /\ last.existed
    /\ last.touched = {KeyPath(last.hkey)}

----------------------------------------------------------------------------
(* The race specification: several store requests for the same key are in   *)
(* flight at once.  store_wiki_cache awaits only save_wiki_cache, which     *)
(* awaits nothing, and the server runs one event loop in one process: a      *)
(* handler that has started runs to its end before another one starts.  The  *)
(* requests complete in any order.                                          *)

MaxWriters == 3

RaceKey == Key(<<"a">>, <<"b">>, <<"g">>, <<"e","n">>)

Writers == 1..MaxWriters

\* The record an earlier, completed store left in the file
EarlierPayload ==
    RequestPayload(Request(RaceKey,
        [wiki_structure |-> JVal("w0"), generated_pages |-> JVal("p0"),
         provider |-> JVal("deepseek"), model |-> JVal("m0")]))

RaceInit ==
    /\ files \in {EmptyDir, WriteFile(EmptyDir, KeyPath(RaceKey),
                                      Serialize(EarlierPayload), 0)}
    /\ now = 0
    /\ last = NoRequest
    /\ prev = Summary(NoRequest)
    /\ authMode = FALSE
    /\ pending = {}
    /\ finished = <<>>
    /\ PathIdle
    /\ ListIdle
    /\ ClientIdle
    /\ OtherIdle

\* Writer w sends a store request for the key
Arrive(w, c) ==
    /\ \A r \in pending : r.id /= w
    /\ \A i \in 1..Len(finished) : finished[i].id /= w
    /\ pending' = pending \cup {[id |-> w, request |-> Request(RaceKey, c)]}
    /\ UNCHANGED <<files, now, last, prev, authMode, finished>>
    /\ UNCHANGED pathVars
    /\ UNCHANGED otherVars
    /\ UNCHANGED listVars
    /\ UNCHANGED clientVars

\* The event loop runs the handler of one request in flight, to its end
RunStore(r, fault) ==
    LET out == store_wiki_cache(files, r.request, fault, now) IN
    /\ r \in pending
    /\ files' = out.fs
    /\ pending' = pending \ {r}
    /\ finished' = Append(finished, [id |-> r.id, ret |-> out.ret,
                                     payload |-> RequestPayload(r.request)])
    /\ UNCHANGED <<now, last, prev, authMode>>
    /\ UNCHANGED pathVars
    /\ UNCHANGED otherVars
    /\ UNCHANGED listVars
    /\ UNCHANGED clientVars

RaceNext ==
    \/ \E w \in Writers, c \in Contents : Arrive(w, c)
    \/ \E r \in pending, fault \in SaveFaults : RunStore(r, fault)

SpecRace == RaceInit /\ [][RaceNext]_vars

----------------------------------------------------------------------------
(* The listing: get_processed_projects.  The handler awaits os.listdir and  *)
(* each os.stat, so it is a sequence of steps: one for the directory, one    *)
(* per file name.  os.listdir gives the names in no particular order: the    *)
(* next name visited is any of those left.                                   *)

\* The names os.listdir(directory) returns
ListDir(fs, d) ==
    { name \in { SubSeq(q, Len(d) + 2, Len(q)) : q \in DOMAIN fs } :
        PathJoin(d, name) \in DOMAIN fs }

\* filename.startswith("deepwiki_cache_") and filename.endswith(".json")
IsCacheFileName(filename) ==
    StartsWith(filename, CachePrefix) /\ EndsWith(filename, JsonSuffix)

\* int(stats.st_mtime * 1000), the mtime counted in seconds
SubmittedAt(mtime) == mtime * 1000

RECURSIVE InsertAscending(_, _)
InsertAscending(sorted, e) ==
    IF sorted = <<>> THEN <<e>>
    ELSE IF Head(sorted).submittedAt <= e.submittedAt
         THEN <<Head(sorted)>> \o InsertAscending(Tail(sorted), e)
         ELSE <<e>> \o sorted

\* The sort without reverse=True
RECURSIVE Mut_SortEntries_ascending(_)
Mut_SortEntries_ascending(entries) ==
    IF entries = <<>> THEN <<>>
    ELSE InsertAscending(Mut_SortEntries_ascending(SubSeq(entries, 1, Len(entries) - 1)),
                         entries[Len(entries)])

RECURSIVE InsertDescending(_, _)
\* e put behind every entry that is not older than it
InsertDescending(sorted, e) ==
    IF sorted = <<>> THEN <<e>>
    ELSE IF Head(sorted).submittedAt >= e.submittedAt
         THEN <<Head(sorted)>> \o InsertDescending(Tail(sorted), e)
         ELSE <<e>> \o sorted

RECURSIVE SortedDescending(_)
\* sorted(entries, key=submittedAt, reverse=True): stable
SortedDescending(entries) ==
    IF entries = <<>> THEN <<>>
    ELSE InsertDescending(SortedDescending(SubSeq(entries, 1, Len(entries) - 1)),
                          entries[Len(entries)])

\* project_entries.sort(key=lambda p: p.submittedAt, reverse=True)
SortEntries(entries) == SortedDescending(entries)

\* The loop body with a name of fewer than four parts ending the scan empty
Mut_VisitName_abort_on_bad_name(fs, entries, filename, statFails) ==
    IF ~IsCacheFileName(filename) THEN entries
    ELSE IF statFails \/ ~Exists(fs, PathJoin(WIKI_CACHE_DIR, filename)) THEN entries
    ELSE LET e == ProjectEntry(filename,
                      SubmittedAt(fs[PathJoin(WIKI_CACHE_DIR, filename)].mtime))
         IN IF e.listed THEN Append(entries, e) ELSE <<>>

\* The loop body with a file that is gone ending the scan empty
Mut_VisitName_missing_file_ends_scan(fs, entries, filename, statFails) ==
    IF ~IsCacheFileName(filename) THEN entries
    ELSE IF ~Exists(fs, PathJoin(WIKI_CACHE_DIR, filename)) THEN <<>>
    ELSE IF statFails THEN entries
    ELSE LET e == ProjectEntry(filename,
                      SubmittedAt(fs[PathJoin(WIKI_CACHE_DIR, filename)].mtime))
         IN IF e.listed THEN Append(entries, e) ELSE entries

\* The loop body for one file name: the entries after it.  A name that is not
\* a cache file name is passed over; a failing os.stat (statFails, or the file
\* gone) and a name with fewer than four parts add nothing.
VisitName(fs, entries, filename, statFails) ==
    IF ~IsCacheFileName(filename) THEN entries
    ELSE IF statFails \/ ~Exists(fs, PathJoin(WIKI_CACHE_DIR, filename)) THEN entries
    ELSE LET e == ProjectEntry(filename,
                      SubmittedAt(fs[PathJoin(WIKI_CACHE_DIR, filename)].mtime))
         IN IF e.listed THEN Append(entries, e) ELSE entries

MaxMtime == 2

\* The files a listed directory may hold: three cache files, a file whose name
\* has the prefix and the suffix but a single part, and a file of another kind
ListedNames ==
    { CacheFileName(<<"a">>, <<"b">>, <<"g">>, <<"e","n">>),
      CacheFileName(<<"a">>, <<"b">>, <<"g">>, <<"z","h">>),
      CacheFileName(<<"a","_","b">>, <<"c">>, <<"g">>, <<"e","n">>),
      CachePrefix \o <<"x">> \o JsonSuffix,
      <<"n",".","t","x","t">> }

\* The directories: any of the files, each with any mtime
ListedDirs ==
    UNION { [ { PathJoin(WIKI_CACHE_DIR, n) : n \in names }
                -> [content : {<<OpenBrace, CloseBrace>>}, mtime : 0..MaxMtime] ]
            : names \in SUBSET ListedNames }

ListInit ==
    /\ files \in ListedDirs
    /\ now = 0
    /\ last = NoRequest
    /\ prev = Summary(NoRequest)
    /\ authMode = FALSE
    /\ ListIdle
    /\ PathIdle
    /\ RaceIdle
    /\ ClientIdle
    /\ OtherIdle

\* The response, once no name is left to visit
Finish(left, entries) ==
    IF left = {} THEN [pc |-> "done", listing |-> SortEntries(entries)]
    ELSE [pc |-> "scanning", listing |-> <<>>]

\* os.listdir returns (or raises, and the request fails with status 500).  The
\* cache directory is made when the module is loaded, so it exists.
ListStart(listdirFails) ==
    /\ scanPc = "idle"
    /\ IF listdirFails
       THEN /\ scanPc' = "failed"
            /\ UNCHANGED <<scanNames, scanEntries, listing>>
       ELSE /\ scanNames' = ListDir(files, WIKI_CACHE_DIR)
            /\ scanEntries' = <<>>
            /\ scanPc' = Finish(scanNames', <<>>).pc
            /\ listing' = Finish(scanNames', <<>>).listing
    /\ scanStatFailed' = {}
    /\ scanGone' = {}
    /\ UNCHANGED cacheVars
    /\ UNCHANGED pathVars
    /\ UNCHANGED otherVars
    /\ UNCHANGED raceVars
    /\ UNCHANGED clientVars

\* The next name is visited; after the last one the entries are sorted and returned
ListVisit(filename, statFails) ==
    /\ scanPc = "scanning"
    /\ filename \in scanNames
    /\ scanNames' = scanNames \ {filename}
    /\ scanEntries' = VisitName(files, scanEntries, filename, statFails)
    /\ scanPc' = Finish(scanNames', scanEntries').pc
    /\ listing' = Finish(scanNames', scanEntries').listing
    /\ scanStatFailed' = IF IsCacheFileName(filename) /\ statFails
                         THEN scanStatFailed \cup {filename} ELSE scanStatFailed
    /\ scanGone' = IF IsCacheFileName(filename)
                      /\ ~Exists(files, PathJoin(WIKI_CACHE_DIR, filename))
                   THEN scanGone \cup {filename} ELSE scanGone
    /\ UNCHANGED cacheVars
    /\ UNCHANGED pathVars
    /\ UNCHANGED otherVars
    /\ UNCHANGED raceVars
    /\ UNCHANGED clientVars

ListNext ==
    \/ \E listdirFails \in BOOLEAN : ListStart(listdirFails)
    \/ \E filename \in scanNames, statFails \in BOOLEAN : ListVisit(filename, statFails)

SpecList == ListInit /\ [][ListNext]_vars

\* C10: the entries get_processed_projects returns are in descending order of
\* submittedAt: each is at least as recent as the one after it.
C10_SortedDescending ==
    (scanPc = "done")
        => \A i \in 1..(Len(listing) - 1) :
              listing[i].submittedAt >= listing[i + 1].submittedAt

\* Three entries with three different times, visited in another order than the
\* one returned
C10_Witness ==
    /\ scanPc = "done"
    /\ Len(listing) = 3
    /\ listing[1].submittedAt > listing[2].submittedAt
    /\ listing[2].submittedAt > listing[3].submittedAt
    /\ scanEntries /= listing

\* The number of entries of the response whose id is the file name
EntriesOf(filename) == Cardinality({ i \in 1..Len(listing) : listing[i].id = filename })

\* The file name splits into at least four parts (len(parts) >= 4)
WellNamed(filename) == Len(FileNameParts(filename)) >= 4

\* C11 as stated: a name of fewer than four parts gives no entry and every other
\* name with the prefix and the suffix gives exactly one.
C11_AsStated ==
    (scanPc = "done")
        => \A n \in ListDir(files, WIKI_CACHE_DIR) :
              IsCacheFileName(n) => EntriesOf(n) = (IF WellNamed(n) THEN 1 ELSE 0)

\* C11: the scan fails only when os.listdir does, before any name is visited;
\* in its response a name with the prefix and the suffix has exactly one entry
\* when it splits into at least four parts and its os.stat succeeded, and no
\* entry otherwise.
C11_BadNameSkipped ==
    /\ (scanPc = "failed") => (scanNames = {} /\ scanEntries = <<>>)
    /\ (scanPc = "done")
        => \A n \in ListDir(files, WIKI_CACHE_DIR) :
              IsCacheFileName(n)
                  => EntriesOf(n) = (IF WellNamed(n) /\ n \notin scanStatFailed
                                     THEN 1 ELSE 0)

\* A directory with the one-part name and the three cache files, all listed
C11_Witness ==
    /\ scanPc = "done"
    /\ \E n \in ListDir(files, WIKI_CACHE_DIR) : IsCacheFileName(n) /\ ~WellNamed(n)
    /\ Len(listing) = 3
    /\ scanStatFailed = {}

----------------------------------------------------------------------------
(* The path specification: get_wiki_cache_path and the file name parsing   *)
(* of get_processed_projects applied to pairs of keys.                     *)

Owners == { <<"a">>, <<"a","_","b">>, <<>> }
Repos == { <<"b">>, <<"c">>, <<"b","_","c">>, <<>>, <<"r",".","j","s","o","n">> }
RepoTypes == { <<"g">>, <<"g","_","a">> }
Languages == { <<"e","n">>, <<"z","h">>, <<"c","_","e","n">> }

PathKeys == [owner : Owners, repo : Repos, repo_type : RepoTypes,
             language : Languages]

\* Two keys are given; nothing is computed yet
PathInit ==
    /\ keyA \in PathKeys
    /\ keyB \in PathKeys
    /\ pathA = NoPath
    /\ pathB = NoPath
    /\ entryA = NoEntry
    /\ CacheIdle
    /\ RaceIdle
    /\ ListIdle
    /\ ClientIdle
    /\ OtherIdle

\* The path of each key is computed, and the file of the first is listed
ComputePaths ==
    /\ pathA = NoPath
    /\ pathA' = KeyPath(keyA)
    /\ pathB' = KeyPath(keyB)
    /\ entryA' = ProjectEntry(CacheFileName(keyA.owner, keyA.repo,
                                            keyA.repo_type, keyA.language), 0)
    /\ UNCHANGED <<keyA, keyB>>
    /\ UNCHANGED otherVars
    /\ UNCHANGED cacheVars
    /\ UNCHANGED raceVars
    /\ UNCHANGED listVars
    /\ UNCHANGED clientVars

PathNext == ComputePaths

SpecPath == PathInit /\ [][PathNext]_vars

\* repoType, owner and language of k hold no separator
NoSeparator(k) ==
    /\ ~Contains(k.repo_type, "_")
    /\ ~Contains(k.owner, "_")
    /\ ~Contains(k.language, "_")

\* C5: two distinct keys whose repoType, owner and language hold no '_'
\* (the repo may) have different file paths.
C5_PathInjective ==
    (pathA /= NoPath /\ keyA /= keyB /\ NoSeparator(keyA) /\ NoSeparator(keyB))
        => pathA /= pathB

\* Two distinct separator-free keys, one with '_' in its repo, the other with
\* the same repo_type, owner and language: their paths were computed and differ.
C5_Witness ==
    /\ pathA /= NoPath
    /\ keyA /= keyB
    /\ NoSeparator(keyA) /\ NoSeparator(keyB)
    /\ Contains(keyA.repo, "_")
    /\ keyA.owner = keyB.owner /\ keyA.language = keyB.language
    /\ pathA /= pathB

\* C6: for a key whose repoType, owner and language hold no '_', the entry
\* listed for the file named by the key has the key's repo_type, owner, repo
\* and language, and the file name as its id.
C6_FilenameRoundTrip ==
    (pathA /= NoPath /\ NoSeparator(keyA)) =>
        /\ entryA.listed
        /\ entryA.repo_type = keyA.repo_type
        /\ entryA.owner = keyA.owner
        /\ entryA.repo = keyA.repo
        /\ entryA.language = keyA.language
        /\ PathJoin(WIKI_CACHE_DIR, entryA.id) = pathA

----------------------------------------------------------------------------
(* The decoder specification: the generator over any sequence of lines,    *)
(* pulled by its consumer until it ends or the consumer stops.              *)

\* The consumer pulls the next chunk (async for / __anext__)
PullChunk ==
    /\ stream.pc = "open"
    /\ LET r == handle_stream_response(stream.lines, stream.pos) IN
       stream' = [stream EXCEPT
                     !.pc = IF r.kind = "chunk" THEN "open"
                            ELSE IF r.kind = "end" THEN "exhausted" ELSE "raised",
                     !.pos = r.pos,
                     !.chunks = IF r.kind = "chunk" THEN Append(@, r.v) ELSE @,
                     !.error = IF r.kind \in {"chunk", "end"} THEN @ ELSE r.kind,
                     !.pulledWith = @ \cup {conn}]
    /\ UNCHANGED <<env, adapter, call, conn>>
    /\ UNCHANGED cacheVars
    /\ UNCHANGED pathVars
    /\ UNCHANGED otherVars
    /\ UNCHANGED raceVars
    /\ UNCHANGED listVars

\* The consumer stops iterating and drops the generator
StopIterating ==
    /\ stream.pc = "open"
    /\ stream' = [stream EXCEPT !.pc = "abandoned"]
    /\ UNCHANGED <<env, adapter, call, conn>>
    /\ UNCHANGED cacheVars
    /\ UNCHANGED pathVars
    /\ UNCHANGED otherVars
    /\ UNCHANGED raceVars
    /\ UNCHANGED listVars

MaxLines == 3

DataLine(payload) == DataPrefix \o payload

RECURSIVE Nested(_)
\* The text of 1 inside n arrays
Nested(n) == IF n = 0 THEN <<"1">> ELSE <<"[">> \o Nested(n - 1) \o <<"]">>

\* The lines of a response: data lines with a value, with something that is
\* no JSON text, with the sentinel (bare and padded), with nothing and with
\* arrays nested beyond the recursion limit; and lines without the prefix
DecoderLines ==
    { DataLine(<<"{", "\"", "a", "\"", ":", "1", "}">>),
      DataLine(<<"[", "1", ",", " ", "2", "]">>),
      DataLine(<<"x">>),
      DataLine(DoneSentinel),
      DataLine(<<" ">> \o DoneSentinel \o <<" ">>),
      DataLine(<<>>),
      DataLine(Nested(RecursionLimit + 1)),
      DoneSentinel,
      <<"d", "a", "t", "a", ":", "1">>,
      <<":", " ", "p">>,
      <<>> }

\* A DeepSeek client has answered a streamed call with the generator over a
\* response of status 200, whose lines are any of the inputs
DecodeInit ==
    /\ env = Absent.env
    /\ adapter = [DeepSeekClient_init(Str(<<"k">>), env)
                      EXCEPT !.args = [provider |-> <<>>, api_key |-> Str(<<"k">>)]]
    /\ \E lines \in UNION { [1..n -> DecoderLines] : n \in 0..MaxLines } :
          LET outcome == [kind |-> "response", status |-> 200,
                          text |-> JoinWith(lines, "\n")]
              r == chat_completion_response(
                       adapter,
                       chat_completion_post(adapter, Absent.call, Absent.call.args, TRUE),
                       outcome)
          IN /\ call = [r.call EXCEPT !.outcome = outcome]
             /\ conn = r.conn
             /\ stream = [r.stream EXCEPT !.lines = lines]
    /\ OtherIdle
    /\ CacheIdle
    /\ PathIdle
    /\ RaceIdle
    /\ ListIdle

DecodeNext == PullChunk \/ StopIterating

SpecDecode == DecodeInit /\ [][DecodeNext]_vars

\* The line is a data line whose trimmed payload is the sentinel
IsSentinelLine(line) ==
    StartsWith(line, DataPrefix) /\ Strip(LinePayload(line)) = DoneSentinel

\* The lines before the first sentinel line that carry the prefix and a
\* payload that parses as JSON, by their positions
ChunkLines(lines) ==
    { i \in 1..Len(lines) :
        /\ \A j \in 1..i : ~IsSentinelLine(lines[j])
        /\ StartsWith(lines[i], DataPrefix)
        /\ JsonLoads(LinePayload(lines[i])).kind = "value" }

\* The j-th of a set of positions, in ascending order
NthOf(positions, j) ==
    CHOOSE i \in positions : Cardinality({ k \in positions : k < i }) = j - 1

\* C12: the decoder never raises, and once it has ended the chunks it has
\* emitted are, in the order of the lines, the JSON values of the data lines
\* before the first sentinel line whose payload parses; while it runs they are
\* the first of these.
C12_DecodesExactly ==
    /\ stream.pc /= "raised"
    /\ stream.pc \in {"open", "exhausted", "abandoned"}
        => /\ Len(stream.chunks) <= Cardinality(ChunkLines(stream.lines))
           /\ \A j \in 1..Len(stream.chunks) :
                 stream.chunks[j]
                     = JsonLoads(LinePayload(stream.lines[NthOf(ChunkLines(stream.lines), j)])).v
    /\ stream.pc = "exhausted"
        => Len(stream.chunks) = Cardinality(ChunkLines(stream.lines))

----------------------------------------------------------------------------
(* The client specification: a client is constructed, chat_completion is   *)
(* called on it once and answered, and the generator of a streamed call is  *)
(* consumed.                                                                *)

\* The environments: no key variable set, or one of them, empty or not
Environments ==
    {Absent.env} \cup { [Absent.env EXCEPT ![k] = Str(v)] : k \in EnvKeys, v \in {<<>>, <<"e">>} }

\* The provider names given to ChineseModelsClient: the seven of
\* provider_configs, one of them capitalised, and two it does not know
ProviderNames ==
    DOMAIN provider_configs
        \cup { <<"M","o","o","n","s","h","o","t">>, <<"z","h","i","p","u","a","i">>, <<"q">> }

ApiKeys == { None, Str(<<>>), Str(<<"k">>) }

\* What client.post gives: it times out, fails otherwise (with the text of
\* the exception), or returns a response, whose body is a JSON text, the
\* lines of a stream, or one of two texts that are neither
Outcomes ==
    LET texts == { <<"{", "\"", "a", "\"", ":", "1", "}">>,
                   JoinWith(<<DataLine(<<"{", "\"", "a", "\"", ":", "1", "}">>),
                              DataLine(<<"x">>), DataLine(<<"1">>),
                              DataLine(DoneSentinel), DataLine(<<"2">>)>>, "\n")
                       \o <<"\n">>,
                   <<"x">>,
                   <<>> }
    IN { [kind |-> "timeout", status |-> 0, text |-> <<>>] }
           \cup [kind : {"error"}, status : {0}, text : { <<>>, <<"connect failed">> }]
           \cup [kind : {"response"}, status : {200, 201, 302, 404}, text : texts]

\* The arguments of chat_completion that vary: the model (none, the empty
\* string, a model of wenxin, a model of no provider), max_tokens (0 for a
\* call without one) and the keyword arguments beyond the named ones
ChatArgs ==
    [model : { None, Str(<<>>), Str(<<"ernie-bot-turbo">>), Str(<<"my-model">>) },
     max_tokens : {0},
     kwargs : { <<>> }]
    \cup [model : { None, Str(<<"my-model">>) },
          max_tokens : {5},
          kwargs : { <<>>, [beam_width |-> 5] }]

ClientInit ==
    /\ env \in Environments
    /\ adapter = Absent.adapter
    /\ call = Absent.call
    /\ conn = Absent.conn
    /\ stream = Absent.stream
    /\ OtherIdle
    /\ CacheIdle
    /\ PathIdle
    /\ RaceIdle
    /\ ListIdle

\* One of the three classes is instantiated
Construct(cls, provider, api_key) ==
    /\ adapter.state = "none"
    /\ LET a == IF cls = "DeepSeekClient" THEN DeepSeekClient_init(api_key, env)
                ELSE IF cls = "ZhipuAIClient" THEN ZhipuAIClient_init(api_key, env)
                ELSE ChineseModelsClient_init(provider, api_key, env)
       IN adapter' = [a EXCEPT !.args = [provider |-> provider, api_key |-> api_key]]
    /\ UNCHANGED <<env, call, conn, stream>>
    /\ UNCHANGED cacheVars
    /\ UNCHANGED pathVars
    /\ UNCHANGED otherVars
    /\ UNCHANGED raceVars
    /\ UNCHANGED listVars

\* chat_completion is called: the client is opened and the request posted
ChatStart(args, streamed) ==
    /\ adapter.state = "built"
    /\ call.pc = "idle"
    /\ call' = chat_completion_post(adapter, call, args, streamed)
    /\ conn' = [client |-> "open", response |-> "none"]
    /\ UNCHANGED <<env, adapter, stream>>
    /\ UNCHANGED cacheVars
    /\ UNCHANGED pathVars
    /\ UNCHANGED otherVars
    /\ UNCHANGED raceVars
    /\ UNCHANGED listVars

\* client.post returns or raises, and the coroutine runs to its end
ChatRespond(outcome) ==
    /\ call.pc = "posting"
    /\ LET r == chat_completion_response(adapter, call, outcome) IN
       /\ call' = [r.call EXCEPT !.outcome = outcome]
       /\ conn' = r.conn
       /\ stream' = r.stream
    /\ UNCHANGED <<env, adapter>>
    /\ UNCHANGED cacheVars
    /\ UNCHANGED pathVars
    /\ UNCHANGED otherVars
    /\ UNCHANGED raceVars
    /\ UNCHANGED listVars

ClientNext ==
    \/ \E api_key \in ApiKeys : Construct("DeepSeekClient", <<>>, api_key)
    \/ \E api_key \in ApiKeys : Construct("ZhipuAIClient", <<>>, api_key)
    \/ \E provider \in ProviderNames, api_key \in ApiKeys :
          Construct("ChineseModelsClient", provider, api_key)
    \/ \E args \in ChatArgs, streamed \in BOOLEAN : ChatStart(args, streamed)
    \/ \E outcome \in Outcomes : ChatRespond(outcome)
    \/ PullChunk
    \/ StopIterating

SpecClient == ClientInit /\ [][ClientNext]_vars

\* C13: whenever the consumer pulls a chunk of a streamed call, the client
\* that carries the response is open and the body of the response has not
\* been read to its end beforehand.
C13_PulledOverOpenConnection ==
    \A c \in stream.pulledWith : c.client = "open" /\ c.response /= "read"

\* C14: a stream that has ended (at the sentinel, at the last line, with an
\* exception) or that its consumer has abandoned has its client closed; so
\* has every call that has returned or raised.
C14_NoLeakedConnection ==
    /\ stream.pc \in {"exhausted", "abandoned", "raised"} => conn.client = "closed"
    /\ call.pc \in {"returned", "raised"} => conn.client = "closed"

\* The consumer has taken one chunk of a stream that had more and stopped
C14_Witness ==
    /\ stream.pc = "abandoned"
    /\ Len(stream.chunks) = 1
    /\ handle_stream_response(stream.lines, stream.pos).kind = "chunk"
    /\ conn.client = "closed"

\* s has p as a substring
HasSubstring(s, p) ==
    \E i \in 0..(Len(s) - Len(p)) : SubSeq(s, i + 1, i + Len(p)) = p

\* The provider name given is one ChineseModelsClient knows, or the class is
\* one of the two others
KnownProvider ==
    adapter.cls = "ChineseModelsClient" => Lower(adapter.args.provider) \in DOMAIN provider_configs

\* The environment variable designated for the client constructed
DesignatedKey ==
    IF adapter.cls = "DeepSeekClient" THEN "DEEPSEEK_API_KEY"
    ELSE IF adapter.cls = "ZhipuAIClient" THEN "ZHIPUAI_API_KEY"
    ELSE provider_configs[Lower(adapter.args.provider)].env_key

\* C15: a client constructed without an explicit key while its environment
\* variable is unset does not come to exist: the constructor raises
\* (ValueError), and no call is ever made on it; every client that exists has
\* a key that is not empty.
C15_NoClientWithoutKey ==
    /\ adapter.state = "built" => Truthy(adapter.api_key)
    /\ adapter.state /= "built" => call.pc = "idle"
    /\ (adapter.state /= "none" /\ KnownProvider
            /\ ~adapter.args.api_key.given /\ ~env[DesignatedKey].given)
        => (adapter.state = "failed" /\ adapter.error.type = "ValueError")

\* The constructor of a provider of provider_configs has raised for want of
\* a key
C15_Witness ==
    /\ adapter.state = "failed"
    /\ adapter.cls = "ChineseModelsClient"
    /\ adapter.args.provider \in DOMAIN provider_configs
    /\ ~adapter.args.api_key.given
    /\ ~env[DesignatedKey].given
    /\ adapter.error.type = "ValueError"

\* C16 as stated: with an explicit key supplied (any string, the empty one
\* too) the client has that key and no environment variable is read; a
\* variable is read only when none is supplied.
C16_AsStated ==
    (adapter.state /= "none" /\ KnownProvider)
        => /\ adapter.args.api_key.given
                => (adapter.api_key = adapter.args.api_key /\ adapter.consulted = {})
           /\ adapter.consulted /= {} => ~adapter.args.api_key.given

\* C16: with an explicit key that is not empty the client has that key and
\* no environment variable is read; with no key or an empty one the
\* designated variable, and no other, is read, and its value is the key.
C16_ExplicitKeyFirst ==
    (adapter.state /= "none" /\ KnownProvider)
        => /\ Truthy(adapter.args.api_key)
                => /\ adapter.state = "built"
                   /\ adapter.api_key = adapter.args.api_key
                   /\ adapter.consulted = {}
           /\ ~Truthy(adapter.args.api_key)
                => /\ adapter.consulted = {DesignatedKey}
                   /\ adapter.api_key = env[DesignatedKey]

\* An explicit key given while the variable holds another: the explicit one
\* is the key of the client
C16_Witness ==
    /\ adapter.state = "built"
    /\ adapter.cls = "ChineseModelsClient"
    /\ adapter.args.api_key = Str(<<"k">>)
    /\ env[DesignatedKey] = Str(<<"e">>)
    /\ adapter.api_key = Str(<<"k">>)
    /\ adapter.consulted = {}

CallEnded == call.pc \in {"returned", "raised"}

\* C18: a call without streaming answered with status 200 and a body that is
\* a JSON text returns the value of that text, as json.loads reads it, and no
\* generator.
C18_BodyUnchanged ==
    (CallEnded /\ ~call.stream /\ call.outcome.kind = "response"
        /\ call.outcome.status = 200 /\ JsonLoads(call.outcome.text).kind = "value")
        => /\ call.pc = "returned"
           /\ call.ret = JsonLoads(call.outcome.text).v
           /\ stream.pc = "none"

\* The body {"a":1} returned by a ZhipuAI client: an object with the one
\* member a, the number 1
C18_Witness ==
    /\ call.pc = "returned"
    /\ ~call.stream
    /\ adapter.cls = "ZhipuAIClient"
    /\ call.outcome.text = <<"{", "\"", "a", "\"", ":", "1", "}">>
    /\ call.ret = JValue("object", <<>>,
                      <<JValue("member", <<"a">>, <<JValue("number", <<"1">>, <<>>)>>)>>)

\* C19: a response whose status is outside 200..299 makes the call raise an
\* exception whose text holds the status code and ends with the body of the
\* response and is not the text of the exception raised on a timeout; the
\* call returns no value and no generator, streamed or not.
C19_ErrorStatusRaises ==
    (CallEnded /\ call.outcome.kind = "response" /\ call.outcome.status \notin 200..299)
        => /\ call.pc = "raised"
           /\ call.error.type = "Exception"
           /\ HasSubstring(call.error.msg, IntText(call.outcome.status))
           /\ EndsWith(call.error.msg, call.outcome.text)
           /\ call.error.msg /= Message(adapter, "timeout", 0, <<>>)
           /\ call.ret = JNone
           /\ stream.pc = "none"

\* A streamed call answered with status 404 and a body has raised
C19_Witness ==
    /\ call.pc = "raised"
    /\ call.stream
    /\ call.outcome.kind = "response"
    /\ call.outcome.status = 404
    /\ call.outcome.text = <<"x">>
    /\ stream.pc = "none"

\* C20: a call posts one request and never another, however it ends and
\* whatever is done with its generator; a time-out or another failure of the
\* post makes the call raise, with that one request sent.
C20_AtMostOneRequest ==
    /\ call.requests <= 1
    /\ call.pc /= "idle" => call.requests = 1
    /\ (CallEnded /\ call.outcome.kind \in {"timeout", "error"})
        => /\ call.pc = "raised"
           /\ call.error.type = "Exception"
           /\ call.ret = JNone
           /\ stream.pc = "none"

\* The post has timed out and the call has raised, one request sent
C20_Witness ==
    /\ call.pc = "raised"
    /\ call.outcome.kind = "timeout"
    /\ call.error.msg = Message(adapter, "timeout", 0, <<>>)
    /\ call.requests = 1
    /\ conn.client = "closed"

\* The client is the wenxin client
IsWenxin(a) == a.cls = "ChineseModelsClient" /\ a.provider = <<"w","e","n","x","i","n">>

\* C21 as stated: a call that names no model sends the first model of the
\* list of its provider, a call that names one sends that name.
C21_AsStated ==
    call.pc /= "idle" =>
        /\ "model" \in DOMAIN call.request.data
        /\ call.request.data.model =
               IF call.args.model.given THEN call.args.model.text
               ELSE <<available_models(adapter)[1]>>

\* C21: every call on a built client posts its request, whatever its model.
\* A client other than wenxin sends the first model of its list when the
\* call names none (for ChineseModelsClient also when it names the empty
\* string) and otherwise the very name of the call, in the list or not; the
\* wenxin client sends no model.
C21_ModelSent ==
    call.pc /= "idle" =>
        /\ call.requests = 1
        /\ IF IsWenxin(adapter) THEN "model" \notin DOMAIN call.request.data
           ELSE /\ "model" \in DOMAIN call.request.data
                /\ call.request.data.model =
                       IF call.args.model.given
                          /\ (adapter.cls = "ChineseModelsClient" => call.args.model.text /= <<>>)
                       THEN call.args.model.text
                       ELSE <<available_models(adapter)[1]>>

\* A moonshot client has posted a request for a model outside its list
C21_Witness ==
    /\ adapter.cls = "ChineseModelsClient"
    /\ adapter.provider = <<"m","o","o","n","s","h","o","t">>
    /\ call.pc = "posting"
    /\ call.args.model = Str(<<"my-model">>)
    /\ call.request.data.model = <<"my-model">>
    /\ call.requests = 1

\* C26: every request of the minimax client has beam_width in its body, with
\* the value 1.
C26_BeamWidthOne ==
    (/\ call.pc /= "idle"
     /\ adapter.cls = "ChineseModelsClient"
     /\ adapter.provider = <<"m","i","n","i","m","a","x">>) =>
        /\ "beam_width" \in DOMAIN call.request.data
        /\ call.request.data.beam_width = 1

\* C27: a request of the wenxin client goes to a path other than
\* /chat/completions, has the Authorization header "token <key>", no model in
\* its body and a max_tokens of the call as max_output_tokens, never as
\* max_tokens; a request of any other client has a model in its body, the
\* URL <base URL>/chat/completions and the header "Bearer <key>".
C27_WenxinRequest ==
    call.pc /= "idle" =>
        LET request == call.request IN
        IF IsWenxin(adapter)
        THEN /\ request.url[2] /= "/chat/completions"
             /\ request.headers.Authorization = <<"token ">> \o adapter.api_key.text
             /\ "model" \notin DOMAIN request.data
             /\ "max_tokens" \notin DOMAIN request.data
             /\ call.args.max_tokens /= 0 =>
                    /\ "max_output_tokens" \in DOMAIN request.data
                    /\ request.data.max_output_tokens = call.args.max_tokens
        ELSE /\ "model" \in DOMAIN request.data
             /\ Len(request.url) = 2
             /\ request.url[2] = "/chat/completions"
             /\ request.headers.Authorization = <<"Bearer ">> \o adapter.api_key.text

\* The wenxin client has posted a request of a call that has a model and
\* max_tokens
C27_Witness ==
    /\ IsWenxin(adapter)
    /\ call.pc = "posting"
    /\ call.args.model = Str(<<"my-model">>)
    /\ call.args.max_tokens = 5
    /\ call.request.data.max_output_tokens = 5
    /\ call.request.url[2] = "/chat/eb-instant"

\* C30: a call whose post is answered is taken for a success exactly when
\* the status is 200.  With any other status, 201 included, it raises the
\* exception of a failed request and returns neither a body nor a
\* generator; with 200 it returns, or raises for its body only (a body that
\* response.json() cannot read), never for its status.
C30_SuccessIffStatus200 ==
    (CallEnded /\ call.outcome.kind = "response") =>
        LET failed == /\ call.pc = "raised"
                      /\ call.error.msg = Message(adapter, "failed", call.outcome.status,
                                                  call.outcome.text)
        IN /\ call.outcome.status = 200 <=> ~failed
           /\ call.pc = "returned" => call.outcome.status = 200
           /\ call.outcome.status /= 200 => (call.ret = JNone /\ stream.pc = "none")
           /\ (call.outcome.status = 200 /\ call.stream) => call.pc = "returned"

\* A call without streaming answered with status 201 and a JSON body has
\* raised, nothing returned
C30_Witness ==
    /\ call.pc = "raised"
    /\ ~call.stream
    /\ call.outcome.kind = "response"
    /\ call.outcome.status = 201
    /\ call.outcome.text = <<"{", "\"", "a", "\"", ":", "1", "}">>
    /\ call.ret = JNone

----------------------------------------------------------------------------
(* The specification of a shared client: several calls of chat_completion  *)
(* are in flight on one client, each with its own arguments, its own        *)
(* httpx.AsyncClient and its own answer, their steps interleaved.           *)

MaxCalls == 2

\* A client of each kind of request, built with the key k, and no call yet
SharedInit ==
    /\ env = Absent.env
    /\ adapter \in { DeepSeekClient_init(Str(<<"k">>), env),
                      ChineseModelsClient_init(<<"w","e","n","x","i","n">>, Str(<<"k">>), env),
                      ChineseModelsClient_init(<<"m","i","n","i","m","a","x">>, Str(<<"k">>),
                                               env) }
    /\ shared = [built |-> adapter,
                 calls |-> [i \in 1..MaxCalls |->
                               [call |-> Absent.call, conn |-> Absent.conn,
                                stream |-> Absent.stream]]]
    /\ call = Absent.call
    /\ conn = Absent.conn
    /\ stream = Absent.stream
    /\ embed = Absent.embed
    /\ bridge = Absent.bridge
    /\ CacheIdle
    /\ PathIdle
    /\ RaceIdle
    /\ ListIdle

\* Call i starts: its statements up to the post run without an await
SharedStart(i, args, streamed) ==
    /\ shared.calls[i].call.pc = "idle"
    /\ shared' = [shared EXCEPT
                      !.calls[i].call = chat_completion_post(adapter, @, args, streamed),
                      !.calls[i].conn = [client |-> "open", response |-> "none"]]
    /\ adapter' = chat_completion_self(adapter, args)
    /\ UNCHANGED <<env, call, conn, stream, embed, bridge>>
    /\ UNCHANGED cacheVars
    /\ UNCHANGED pathVars
    /\ UNCHANGED raceVars
    /\ UNCHANGED listVars

\* The post of call i returns or raises, and the call runs to its end
SharedRespond(i, outcome) ==
    /\ shared.calls[i].call.pc = "posting"
    /\ LET r == chat_completion_response(adapter, shared.calls[i].call, outcome) IN
       shared' = [shared EXCEPT
                     !.calls[i] = [r EXCEPT !.call.outcome = outcome]]
    /\ UNCHANGED <<embed, bridge>>
    /\ UNCHANGED clientVars
    /\ UNCHANGED cacheVars
    /\ UNCHANGED pathVars
    /\ UNCHANGED raceVars
    /\ UNCHANGED listVars

SharedNext ==
    \/ \E i \in 1..MaxCalls, streamed \in BOOLEAN,
          args \in { a \in ChatArgs : a.model = Str(<<"my-model">>) /\ a.kwargs = <<>> } :
          SharedStart(i, args, streamed)
    \/ \E i \in 1..MaxCalls,
          outcome \in { o \in Outcomes : o.status \in {0, 200, 404} /\ Len(o.text) > 1 } :
          SharedRespond(i, outcome)

SpecShared == SharedInit /\ [][SharedNext]_vars

\* Call i run alone on the client as it was constructed, with the arguments
\* and the answer it has had
Alone(i) ==
    LET c == shared.calls[i].call
        posted == chat_completion_post(shared.built, Absent.call, c.args, c.stream)
    IN IF c.pc = "posting"
       THEN [call |-> posted, conn |-> [client |-> "open", response |-> "none"],
             stream |-> Absent.stream]
       ELSE LET r == chat_completion_response(shared.built, posted, c.outcome)
            IN [r EXCEPT !.call.outcome = c.outcome]

C28_FailedWriteKeepsRecord ==
    (last.op = "store" /\ last.status /= 200 /\ ~last.ret /\ last.fault /= NoFault) =>
        read_wiki_cache(files, last.hkey.owner, last.hkey.repo, last.hkey.repo_type,
                        last.hkey.language, NoFault) = last.before

\* C24: every blocking file-system call of a cache request runs on a worker
\* thread, none on the thread of the event loop.
C24_NoFileCallOnLoop ==
    \A c \in last.fsCalls : c.thread = "worker"

----------------------------------------------------------------------------
(* The specification of a scan among deletions: get_processed_projects     *)
(* awaits os.listdir and each os.stat on a worker thread, and at each of   *)
(* these awaits the event loop may serve a delete request.                 *)

\* A directory of files of one age, and no request yet
ScanInit ==
    /\ files \in { d \in ListedDirs : \A q \in DOMAIN d : d[q].mtime = 1 }
    /\ now = 0
    /\ last = NoRequest
    /\ prev = Summary(NoRequest)
    /\ authMode = FALSE
    /\ ListIdle
    /\ PathIdle
    /\ RaceIdle
    /\ ClientIdle
    /\ OtherIdle

ScanNext ==
    \/ \E listdirFails \in BOOLEAN : ListStart(listdirFails)
    \/ \E filename \in scanNames, statFails \in BOOLEAN : ListVisit(filename, statFails)
    \/ \E k \in RequestKeys, fault \in DeleteFaults : Delete(k, NoCode, fault)

SpecScan == ScanInit /\ [][ScanNext]_vars

\* C29: a scan among deletions fails only when os.listdir does, before any
\* name is visited.  A cache file that was gone when its name was visited
\* has no entry in the response; every entry is of a file that was there
\* when its name was visited; and every well-named cache file that is still
\* there at the end, its os.stat not having failed otherwise, has its entry.
C29_DeletedFileSkipped ==
    /\ (scanPc = "failed") => (scanNames = {} /\ scanEntries = <<>>)
    /\ (scanPc = "done") =>
          /\ \A n \in scanGone : EntriesOf(n) = 0
          /\ \A i \in 1..Len(listing) :
                listing[i].id \notin scanGone \cup scanStatFailed
          /\ \A n \in ListDir(files, WIKI_CACHE_DIR) :
                (IsCacheFileName(n) /\ WellNamed(n) /\ n \notin scanStatFailed)
                    => EntriesOf(n) = 1

\* One cache file was deleted after the listing and before its name was
\* visited, and the response has the entries of the two others
C29_Witness ==
    /\ scanPc = "done"
    /\ Cardinality(scanGone) = 1
    /\ scanStatFailed = {}
    /\ Len(listing) = 2
    /\ last.op = "delete"
    /\ last.status = 200

----------------------------------------------------------------------------------------------------------------------------------------
(* The embedder specification: MockEmbedderClient.call is called again and *)
(* again, with one text or a list of texts, on the one generator of the     *)
(* random module.  MD5 and the Mersenne Twister are replaced by a           *)
(* polynomial hash and a linear congruential generator of 15 bits, rng to   *)
(* (rng * 4093 + 13849) % 32768 at each step, and a component of a vector   *)
(* by a number of hundredths from -100 to 100.                              *)

\* self.dimensions
dimensions == 256

\* The generator left as it is, whatever the text
Mut_random_seed_keeps_state(rng, text) == rng

\* random.seed(hashlib.md5(text.encode()).hexdigest()): the state of the
\* generator is set from the hash of the text, its former state forgotten
random_seed(rng, text) ==
    LET code(c) == IF c = "a" THEN 97 ELSE 98
        h[i \in 0..Len(text)] ==
            IF i = 0 THEN 7 ELSE (h[i - 1] * 31 + code(text[i])) % 32768
    IN h[Len(text)]

\* n steps of the generator in one: rng to (Steps[n].a * rng + Steps[n].c)
\* % 32768, the steps of 2n being n steps made twice
Steps ==
    LET s[n \in 0..dimensions] ==
            IF n = 0 THEN [a |-> 1, c |-> 0]
            ELSE IF n % 2 = 1
            THEN LET p == s[n - 1]
                 IN [a |-> (4093 * p.a) % 32768, c |-> (4093 * p.c + 13849) % 32768]
            ELSE LET p == s[n \div 2]
                 IN [a |-> (p.a * p.a) % 32768, c |-> (p.a * p.c + p.c) % 32768]
    IN [n \in 0..dimensions |-> s[n]]

\* The n-th random.uniform(-1, 1) of a generator in the state rng: the state
\* after the n steps and the number it gives
uniform(rng, n) ==
    LET next == (Steps[n].a * rng + Steps[n].c) % 32768
    IN [rng |-> next, value |-> ((next \div 128) % 201) - 100]

\* MockEmbedderClient.call on a list of texts (a single text is the list of
\* that text): for each text the generator is seeded and self.dimensions
\* numbers are drawn.  The vectors in the order of the texts, and the
\* generator as the call leaves it.
MockEmbedderClient_call(texts, rng) ==
    LET after[k \in 0..Len(texts)] ==
            IF k = 0 THEN [ret |-> <<>>, rng |-> rng]
            ELSE LET before == after[k - 1]
                     seeded == random_seed(before.rng, texts[k])
                 IN [ret |-> Append(before.ret,
                                    [i \in 1..dimensions |-> uniform(seeded, i).value]),
                     rng |-> uniform(seeded, dimensions).rng]
    IN after[Len(texts)]

MaxBatch == 2

\* The generator of a process that has just imported random is in any state
EmbedInit ==
    /\ embed \in [rng : {0, 1, 30000}, called : {FALSE}, str : {FALSE}, texts : {<<>>},
                   ret : {<<>>}, first : {<<>>}]
    /\ shared = Absent.shared
    /\ bridge = Absent.bridge
    /\ CacheIdle
    /\ PathIdle
    /\ RaceIdle
    /\ ListIdle
    /\ ClientIdle

\* One call, of a list of texts or of one text that is not in a list (str):
\* "if isinstance(input, str): input = [input]".  A text met for the first
\* time has its vector remembered.
Embed(texts, str) ==
    /\ LET r == MockEmbedderClient_call(texts, embed.rng)
           new == { texts[k] : k \in 1..Len(texts) } \ DOMAIN embed.first
       IN embed' = [rng |-> r.rng, called |-> TRUE, str |-> str, texts |-> texts,
                    ret |-> r.ret,
                    first |-> [t \in DOMAIN embed.first \cup new |->
                                  IF t \in DOMAIN embed.first THEN embed.first[t]
                                  ELSE r.ret[CHOOSE k \in 1..Len(texts) :
                                                 /\ texts[k] = t
                                                 /\ \A j \in 1..(k - 1) : texts[j] /= t]]]
    /\ UNCHANGED <<shared, bridge>>
    /\ UNCHANGED cacheVars
    /\ UNCHANGED pathVars
    /\ UNCHANGED raceVars
    /\ UNCHANGED listVars
    /\ UNCHANGED clientVars

EmbedNext ==
    \E texts \in UNION { [1..n -> { <<"a">>, <<"b">>, <<"a","b">>, <<"b","a">> }]
                          : n \in 0..MaxBatch },
       str \in BOOLEAN :
        (str => Len(texts) = 1) /\ Embed(texts, str)

SpecEmbed == EmbedInit /\ [][EmbedNext]_vars

\* C22: a call gives one vector for each text, in the order of the texts,
\* each of self.dimensions = 256 components, and the vector of a text is the
\* one the text had the first time it was embedded, whatever calls came in
\* between and wherever the text stands in its list.
C22_SameTextSameVector ==
    embed.called =>
        /\ Len(embed.ret) = Len(embed.texts)
        /\ \A k \in 1..Len(embed.texts) :
              /\ Len(embed.ret[k]) = 256
              /\ embed.ret[k] = embed.first[embed.texts[k]]

\* The text ab embedded again, second in a list after the text b, having
\* been embedded alone before; the two texts have different vectors
C22_Witness ==
    /\ embed.called
    /\ embed.texts = << <<"b">>, <<"a","b">> >>
    /\ embed.first[<<"a","b">>] = embed.ret[2]
    /\ embed.ret[1] /= embed.ret[2]
    /\ DOMAIN embed.first = { <<"a","b">>, <<"b">> }

----------------------------------------------------------------------------
(* The bridge specification: DeepSeekClient.call, the synchronous entry to  *)
(* chat_completion, is called on a thread whose event loop is running or    *)
(* is not.                                                                  *)

\* A DeepSeek client built with the key k, and no call yet
BridgeInit ==
    /\ env = Absent.env
    /\ adapter = DeepSeekClient_init(Str(<<"k">>), env)
    /\ call = Absent.call
    /\ conn = Absent.conn
    /\ stream = Absent.stream
    /\ shared = Absent.shared
    /\ embed = Absent.embed
    /\ bridge = Absent.bridge
    /\ CacheIdle
    /\ PathIdle
    /\ RaceIdle
    /\ ListIdle

\* call(api_kwargs, model_type) up to thread.start(), or to its end when it
\* starts no thread: another model type than LLM raises ValueError; with the
\* loop of the caller at rest the coroutine runs on it to its end, answered
\* by outcome; run_until_complete of a loop that is running raises
\* RuntimeError
BridgeCall(model_type, running, streamed, outcome) ==
    /\ bridge.pc = "idle"
    /\ LET b == [bridge EXCEPT !.model_type = model_type, !.running = running,
                               !.stream = streamed]
           r == chat_completion_response(
                    adapter,
                    chat_completion_post(adapter, Absent.call, Absent.call.args, streamed),
                    outcome)
       IN bridge' =
            IF model_type /= "LLM"
            THEN [b EXCEPT !.pc = "raised",
                           !.error = Error("ValueError", <<"unsupported model type">>)]
            ELSE IF call_dispatch(running) = "thread"
            THEN [b EXCEPT !.pc = "joining", !.thread = "started"]
            ELSE IF running
            THEN [b EXCEPT !.pc = "raised",
                           !.error = Error("RuntimeError",
                                           <<"This event loop is already running">>)]
            ELSE [b EXCEPT !.pc = IF r.call.pc = "raised" THEN "raised" ELSE "returned",
                           !.ranOn = "loop", !.ret = r, !.error = r.call.error]
    /\ UNCHANGED <<shared, embed>>
    /\ UNCHANGED cacheVars
    /\ UNCHANGED pathVars
    /\ UNCHANGED raceVars
    /\ UNCHANGED listVars
    /\ UNCHANGED clientVars

\* run_in_thread: the thread makes a loop of its own, runs the coroutine on
\* it to its end, keeps the result or the exception and closes the loop
WorkerRun(outcome) ==
    /\ bridge.thread = "started"
    /\ bridge' = [bridge EXCEPT
                      !.thread = "finished", !.new_loop = "closed", !.ranOn = "new_loop",
                      !.worker = chat_completion_response(
                                     adapter,
                                     chat_completion_post(adapter, Absent.call,
                                                          Absent.call.args, bridge.stream),
                                     outcome)]
    /\ UNCHANGED <<shared, embed>>
    /\ UNCHANGED cacheVars
    /\ UNCHANGED pathVars
    /\ UNCHANGED raceVars
    /\ UNCHANGED listVars
    /\ UNCHANGED clientVars

\* thread.join() returns, the thread having ended: the exception kept is
\* raised, or the result kept returned
BridgeJoin ==
    /\ bridge.pc = "joining"
    /\ bridge.thread = "finished"
    /\ bridge' = [bridge EXCEPT
                      !.pc = IF bridge.worker.call.pc = "raised" THEN "raised"
                             ELSE "returned",
                      !.ret = bridge.worker,
                      !.error = bridge.worker.call.error]
    /\ UNCHANGED <<shared, embed>>
    /\ UNCHANGED cacheVars
    /\ UNCHANGED pathVars
    /\ UNCHANGED raceVars
    /\ UNCHANGED listVars
    /\ UNCHANGED clientVars

BridgeNext ==
    \/ \E model_type \in {"LLM", "UNDEFINED"}, running \in BOOLEAN, streamed \in BOOLEAN,
          outcome \in Outcomes : BridgeCall(model_type, running, streamed, outcome)
    \/ \E outcome \in Outcomes : WorkerRun(outcome)
    \/ BridgeJoin

SpecBridge == BridgeInit /\ [][BridgeNext]_vars

\* C23: a call for an LLM made while the loop of the caller is running gives
\* the coroutine to a thread of its own, which runs it on a new loop, never
\* on the loop of the caller; the call ends only when the thread has ended,
\* and then returns the very result of the thread or raises its very
\* exception; and while the call waits the thread can always go on, so that
\* the wait comes to an end.
C23_BridgeJoinsWorker ==
    (bridge.running /\ bridge.model_type = "LLM") =>
        /\ bridge.ranOn /= "loop"
        /\ bridge.pc /= "idle" => bridge.thread /= "none"
        /\ bridge.pc \in {"returned", "raised"} =>
              /\ bridge.thread = "finished"
              /\ bridge.ranOn = "new_loop"
              /\ bridge.new_loop = "closed"
              /\ bridge.ret = bridge.worker
              /\ bridge.worker.call.stream = bridge.stream
              /\ bridge.error = bridge.worker.call.error
              /\ bridge.pc = "raised" <=> bridge.worker.call.pc = "raised"
        /\ (bridge.pc = "joining" /\ bridge.thread = "started") =>
              ENABLED (\E outcome \in Outcomes : WorkerRun(outcome))
        /\ (bridge.pc = "joining" /\ bridge.thread = "finished") => ENABLED BridgeJoin

\* A call made under a running loop has raised the exception of a time-out
\* that its thread met
C23_Witness ==
    /\ bridge.running
    /\ bridge.model_type = "LLM"
    /\ bridge.pc = "raised"
    /\ bridge.thread = "finished"
    /\ bridge.error = Error("Exception", Message(adapter, "timeout", 0, <<>>))
    /\ bridge.ret = bridge.worker

============================================================================
